---- MODULE Spec2Model ----
(***************************************************************************)
(* Living Chronicle: the simulation kernel (era clock, event generator,    *)
(* belief propagation, pantheon) as a state machine.                       *)
(*                                                                         *)
(* Numeric conventions.  Python floats are modelled in fixed point:        *)
(* every belief, emotion, modifier and impact is an integer number of      *)
(* thousandths (Unit = 1.0).  The seeded random.Random stream is modelled  *)
(* as a 16-bit linear congruential generator: a draw is an integer in      *)
(* 0..RngMod-1 standing for the float draw/RngMod in [0,1).                *)
(***************************************************************************)
EXTENDS Integers, Sequences, FiniteSets, TLC

VARIABLES
    engine,      \* the SimulationEngine object (in-memory kernel state)
    db,          \* the SQLite store the engine is bound to
    result,      \* outcome of the engine's most recent tick() call
    ascRun,      \* observer: per domain, length of the current qualifying run
    weakRun,     \* observer: per domain, consecutive weak ticks of its living god
    allQual,     \* observer: per domain, every tick since genesis qualified
    run,         \* observer: completed ticks since the last initialize (capped)
    left,        \* the run's budget: initialize calls, forcings and store
                 \* faults left, last day
    ticks,       \* observer: completed ticks since the last completed genesis
    orig,        \* observer: where the kernel replaced by a new one stood
    streakWas,   \* observer: the counters of qualifying days as the last completed tick found them
    engine2,     \* a second, independent SimulationEngine (own store db2)
    db2,
    trace1,      \* observer: projected TickResults of engine, in order
    trace2,      \* observer: projected TickResults of engine2, in order
    clock,       \* a stand-alone AgeManager
    clockSaved,  \* the (era, daysInEra) pair last persisted for it
    since,       \* observer: advances since the clock's last transition
    origin,      \* observer: what set the clock's current eraDuration
    era0,        \* Age.next study: the era the walk started from
    eraPath,     \* Age.next study: eras visited so far
    citizen,     \* belief update study: one citizen row
    nApplied,    \* belief update study: events applied to it so far
    mgr,         \* the SimulationManager object (its engine is `engine`)
    pc,          \* per thread, where it is in step() or initialize()
    frame        \* per thread, the locals and the outcome of its call

engVars   == <<engine, db, result, ascRun, weakRun, allQual, run, left, ticks, orig, streakWas>>
detVars   == <<engine2, db2, trace1, trace2>>
clockVars == <<clock, clockSaved, since, origin>>
ageVars   == <<era0, eraPath>>
applyVars == <<citizen, nApplied>>
mgrVars   == <<mgr, pc, frame>>
vars      == <<engine, db, result, ascRun, weakRun, allQual, run, left, ticks, orig, streakWas,
               engine2, db2, trace1, trace2, clock, clockSaved, since, origin,
               era0, eraPath,
               citizen, nApplied,
               mgr, pc, frame>>

(***************************************************************************)
(* Bounds of the model (not program constants).                            *)
(***************************************************************************)
MaxDay == 13          \* Spec: last day ticked
MaxForces == 2        \* Spec: belief forcings per run
NumSeeds == 2         \* seeds 1..NumSeeds are explored
NumForceDomains == 1  \* the first domains of DOMAINS can be forced
RestartMaxDay == 10   \* SpecRestart: last day ticked
RestartMaxInits == 2  \* SpecRestart: initialize calls per run
RestartMaxForces == 1 \* SpecRestart: belief forcings per run
MaxNextSteps == 18    \* SpecAge: applications of Age.next
NumClockDraws == 64   \* SpecClock: evenly spaced draws offered to the clock
MaxDetDay == 5        \* SpecDet: last day ticked by either engine
MaxDetEngines == 1    \* SpecDet: engines constructed after the first two
MaxApplied == 2       \* SpecApply: events applied to the citizen
NumGenesisSeeds == 64 \* SpecGenesis: seeds 1..NumGenesisSeeds are explored
RoundTripMaxDay == 22 \* SpecRoundTrip: last day ticked
RoundTripMaxInits == 3 \* SpecRoundTrip: initialize calls per run
NarratedMaxDay == 12  \* SpecNarrated: last day ticked
NumCallers == 2       \* SpecManager: threads calling step() and initialize()
NumLoops == 1         \* SpecManager: background tick threads that can be alive
NumAutoLoops == 2     \* SpecAutoRun: background tick threads that can be alive
MaxSubscribers == 2   \* SpecManager: callbacks subscribed at a time
MgrMaxDay == 2        \* SpecManager: last day ticked
MgrMaxInits == 2      \* SpecManager: initialize calls per run
AutoMaxDay == 2       \* SpecAutoRun: last day ticked
AutoMaxInits == 1     \* SpecAutoRun: initialize calls per run
FailMaxDay == 6       \* SpecFailure: last day ticked
FailMaxForces == 1    \* SpecFailure: belief forcings per run
FailMaxFaults == 1    \* SpecFailure: ticks during which the store fails
CorruptMaxDay == 7    \* SpecCorrupt: last day ticked
CorruptMaxInits == 2  \* SpecCorrupt: initialize calls per run
CorruptMaxForces == 1 \* SpecCorrupt: belief forcings per run
CorruptMaxFaults == 1 \* SpecCorrupt: rows written twice per run
NumPipelineSeeds == 40 \* SpecPipeline: seeds 1..NumPipelineSeeds are looked through
PipelineMaxDay == 21  \* SpecPipeline: last day ticked
PipelineMaxForces == 1 \* SpecPipeline: belief forcings per run
RebirthMaxDay == 17   \* SpecRebirth: last day ticked
RebirthMaxForces == 3 \* SpecRebirth: belief forcings per run

(***************************************************************************)
(* Shared conventions                                                      *)
(***************************************************************************)
Unit == 1000

None == <<>>
Some(x) == <<x>>
IsNone(o) == o = <<>>
The(o) == o[1]

Max(a, b) == IF a >= b THEN a ELSE b
Min(a, b) == IF a <= b THEN a ELSE b

\* F applied to the value of v (v is evaluated once, then bound)
Bind(v, F(_)) == CHOOSE r \in {F(x) : x \in {v}} : TRUE

DOMAINS == <<"river", "flame", "sky", "war", "harvest", "memory">>
Domain == {DOMAINS[i] : i \in 1..Len(DOMAINS)}

(***************************************************************************)
(* The pseudorandom stream (random.Random)                                 *)
(***************************************************************************)
RngMod == 65536
RngMul == 25173
RngInc == 13849

\* random.Random(seed)
rng_seed(seed) == seed % RngMod

\* one step of the stream; the new state is also the value drawn
rng_next(s) == (s * RngMul + RngInc) % RngMod

\* the state after k draws
RECURSIVE rng_adv(_, _)
rng_adv(s, k) == IF k <= 0 THEN s ELSE rng_adv(rng_next(s), k - 1)

\* the successive n draws after state s (the last one is the state afterwards)
RECURSIVE rng_draws(_, _)
rng_draws(s, n) ==
    IF n <= 0 THEN <<>>
    ELSE IF n = 1 THEN <<rng_next(s)>>
    ELSE Bind(rng_draws(s, n \div 2),
              LAMBDA first : first \o rng_draws(first[Len(first)], n - n \div 2))

\* rng.randint(a, b) from the draw x
randint(x, a, b) == a + (x * (b - a + 1)) \div RngMod

\* rng.uniform(a, b) from the draw x, in thousandths
uniform(x, a, b) == a + ((b - a) * x) \div RngMod

\* rng.choice(seq) from the draw x: a 1-based index into a list of length n
choice(x, n) == 1 + (x * n) \div RngMod

(***************************************************************************)
(* ages.py: Age and AGE_TRAITS                                             *)
(***************************************************************************)
Age == <<"Emergence", "Order", "Strain", "Collapse", "Silence", "Rebirth">>
Ages == {Age[i] : i \in 1..Len(Age)}

\* cycle.index(self), 0-based as in the source
Age_index(a) == (CHOOSE i \in 1..Len(Age) : Age[i] = a) - 1

\* mutation: the successor skips one era
Age_next_skip(a) == Age[((Age_index(a) + 2) % Len(Age)) + 1]

Age_next(a) == Age[((Age_index(a) + 1) % Len(Age)) + 1]

AGE_TRAITS ==
    [a \in Ages |->
        CASE a = "Emergence" -> [min_days |-> 20, max_days |-> 40, event_rate |-> 600,
                                 belief_growth |-> 1200, fear_modifier |-> 300,
                                 gratitude_modifier |-> 700]
          [] a = "Order"     -> [min_days |-> 30, max_days |-> 60, event_rate |-> 400,
                                 belief_growth |-> 1000, fear_modifier |-> 200,
                                 gratitude_modifier |-> 800]
          [] a = "Strain"    -> [min_days |-> 25, max_days |-> 45, event_rate |-> 700,
                                 belief_growth |-> 1100, fear_modifier |-> 600,
                                 gratitude_modifier |-> 400]
          [] a = "Collapse"  -> [min_days |-> 15, max_days |-> 30, event_rate |-> 900,
                                 belief_growth |-> 800, fear_modifier |-> 900,
                                 gratitude_modifier |-> 100]
          [] a = "Silence"   -> [min_days |-> 10, max_days |-> 25, event_rate |-> 200,
                                 belief_growth |-> 500, fear_modifier |-> 500,
                                 gratitude_modifier |-> 300]
          [] a = "Rebirth"   -> [min_days |-> 15, max_days |-> 35, event_rate |-> 500,
                                 belief_growth |-> 1300, fear_modifier |-> 400,
                                 gratitude_modifier |-> 600]]

(***************************************************************************)
(* ages.py: AgeManager.  x is the draw the operation's randint consumes.   *)
(***************************************************************************)
AgeManager_new(x) ==
    [current_age |-> "Emergence",
     day_counter |-> 0,
     age_duration |-> randint(x, AGE_TRAITS["Emergence"].min_days,
                                 AGE_TRAITS["Emergence"].max_days)]

\* mutation: the restored duration ignores the era's minimum
AgeManager_from_state_nomin(age_name, day_counter) ==
    [current_age |-> age_name,
     day_counter |-> day_counter,
     age_duration |-> day_counter + 1]

\* mutation: the restored clock starts its era over
AgeManager_from_state_restart(age_name, day_counter) ==
    [current_age |-> age_name,
     day_counter |-> 0,
     age_duration |-> Max(day_counter + 1, AGE_TRAITS[age_name].min_days)]

\* mutation: the restored clock takes the era to last as long as it can
AgeManager_from_state_longest(age_name, day_counter) ==
    [current_age |-> age_name,
     day_counter |-> day_counter,
     age_duration |-> Max(day_counter + 1, AGE_TRAITS[age_name].max_days)]

AgeManager_from_state(age_name, day_counter) ==
    [current_age |-> age_name,
     day_counter |-> day_counter,
     age_duration |-> Max(day_counter + 1, AGE_TRAITS[age_name].min_days)]

\* mutation: the transition re-enters the current era
AgeManager_transition_same(am, x) ==
    [current_age |-> am.current_age,
     day_counter |-> 0,
     age_duration |-> randint(x, AGE_TRAITS[am.current_age].min_days,
                                 AGE_TRAITS[am.current_age].max_days)]

\* mutation: the transition leaves the day counter where it stood
AgeManager_transition_noreset(am, x) ==
    LET nxt == Age_next(am.current_age) IN
    [current_age |-> nxt,
     day_counter |-> am.day_counter,
     age_duration |-> randint(x, AGE_TRAITS[nxt].min_days, AGE_TRAITS[nxt].max_days)]

\* AgeManager._transition
AgeManager_transition(am, x) ==
    LET nxt == Age_next(am.current_age) IN
    [current_age |-> nxt,
     day_counter |-> 0,
     age_duration |-> randint(x, AGE_TRAITS[nxt].min_days, AGE_TRAITS[nxt].max_days)]

\* mutation: the duration test is strict, so an era lasts one day too long
AgeManager_tick_late(am, x) ==
    LET ticked == [am EXCEPT !.day_counter = am.day_counter + 1] IN
    IF ticked.day_counter > ticked.age_duration
    THEN LET t == AgeManager_transition(ticked, x) IN
         [am |-> t, transition |-> t.current_age]
    ELSE [am |-> ticked, transition |-> "None"]

\* AgeManager.tick: the manager after the call and the value returned
AgeManager_tick(am, x) ==
    LET ticked == [am EXCEPT !.day_counter = am.day_counter + 1] IN
    IF ticked.day_counter >= ticked.age_duration
    THEN LET t == AgeManager_transition(ticked, x) IN
         [am |-> t, transition |-> t.current_age]
    ELSE [am |-> ticked, transition |-> "None"]

(***************************************************************************)
(* events.py: templates, per-age modifiers and EventGenerator              *)
(***************************************************************************)
\* <<name, description, fear, gratitude, belief>> per domain, in thousandths
EVENT_TEMPLATES ==
    [d \in Domain |->
        CASE d = "river" ->
               << <<"The Great Flooding", "Waters rise beyond their banks", 400, -200, 300>>,
                  <<"The Still Waters", "Rivers calm to mirror-glass", -200, 300, 200>>,
                  <<"The River's Bounty", "Fish leap willingly into nets", -100, 500, 400>>,
                  <<"The Poisoned Springs", "Wells turn bitter and foul", 500, -300, 300>>,
                  <<"The Parting Currents", "Waters divide before the faithful", 100, 400, 500>> >>
          [] d = "flame" ->
               << <<"The Consuming Fire", "Flames devour without warning", 600, -400, 400>>,
                  <<"The Warming Hearth", "All fires burn steady and true", -200, 400, 300>>,
                  <<"The Forge's Blessing", "Metalwork emerges flawless", -100, 500, 400>>,
                  <<"The Ember Rain", "Sparks fall from cloudless sky", 500, -200, 500>>,
                  <<"The Eternal Flame", "A fire burns without fuel", 200, 300, 600>> >>
          [] d = "sky" ->
               << <<"The Darkened Sun", "Shadow crosses the daylight", 500, -300, 500>>,
                  <<"The Gentle Rains", "Clouds bring life-giving water", -200, 500, 300>>,
                  <<"The Thunder Voice", "Lightning speaks across valleys", 300, 100, 400>>,
                  <<"The Clear Heavens", "Stars align in ancient patterns", 100, 400, 400>>,
                  <<"The Howling Winds", "Gales tear at all standing", 500, -300, 300>> >>
          [] d = "war" ->
               << <<"The Border Clash", "Blood spills at the boundaries", 400, -200, 300>>,
                  <<"The Victorious Return", "Warriors come home triumphant", 100, 500, 400>>,
                  <<"The Broken Peace", "Old alliances shatter", 500, -400, 400>>,
                  <<"The Honorable Duel", "Champions settle disputes", 200, 200, 300>>,
                  <<"The Siege Lifted", "Enemies retreat in defeat", 0, 600, 500>> >>
          [] d = "harvest" ->
               << <<"The Abundant Yield", "Fields overflow with grain", -200, 600, 400>>,
                  <<"The Blighted Crops", "Rot spreads through stores", 500, -400, 300>>,
                  <<"The First Fruits", "Early harvest brings hope", -100, 400, 300>>,
                  <<"The Locust Swarm", "Insects devour all growth", 600, -500, 400>>,
                  <<"The Golden Fields", "Grain grows tall and strong", -200, 500, 400>> >>
          [] d = "memory" ->
               << <<"The Forgotten Name", "Ancient knowledge is lost", 300, -200, 300>>,
                  <<"The Recovered Scroll", "Old wisdom resurfaces", 100, 400, 400>>,
                  <<"The Prophetic Dream", "Visions reveal hidden truths", 200, 300, 500>>,
                  <<"The Ancestral Voice", "The dead speak to the living", 300, 200, 500>>,
                  <<"The Chronicle Burns", "Records are destroyed", 400, -300, 300>> >>]

AGE_EVENT_MODIFIERS ==
    [a \in Ages |->
        CASE a = "Emergence" -> [magnitude_boost |-> 100, positive_bias |-> 100]
          [] a = "Order"     -> [magnitude_boost |-> -100, positive_bias |-> 200]
          [] a = "Strain"    -> [magnitude_boost |-> 100, positive_bias |-> -100]
          [] a = "Collapse"  -> [magnitude_boost |-> 300, positive_bias |-> -300]
          [] a = "Silence"   -> [magnitude_boost |-> -200, positive_bias |-> 0]
          [] a = "Rebirth"   -> [magnitude_boost |-> 0, positive_bias |-> 200]]

\* [d for d in DOMAINS if d != primary_domain]
OtherDomains(primary) == SelectSeq(DOMAINS, LAMBDA d : d # primary)

\* The Event built by generate_event from its draws: template index t of the
\* primary domain, optional secondary domain, and the magnitude jitter draw xm.
MakeEvent(age, primary, t, secondary, xm) ==
    LET tpl == EVENT_TEMPLATES[primary][t]
        modifiers == AGE_EVENT_MODIFIERS[age]
        magnitude == Max(100, Min(Unit,
                         500 + uniform(xm, -200, 200) + modifiers.magnitude_boost))
        bias == modifiers.positive_bias
        fear == tpl[3] - (bias * 200) \div Unit
        grat == tpl[4] + (bias * 200) \div Unit
    IN  [name |-> tpl[1],
         description |-> tpl[2],
         primary_domain |-> primary,
         secondary_domain |-> secondary,
         fear_impact |-> (fear * magnitude) \div Unit,
         gratitude_impact |-> (grat * magnitude) \div Unit,
         belief_impact |-> (tpl[5] * magnitude) \div Unit,
         magnitude |-> magnitude]

\* EventGenerator.generate_event: the optional event and the stream afterwards.
\* "None" stands for a missing secondary domain.  D holds the six draws the
\* longest path consumes; without a secondary domain the fifth is not taken.
generate_event_from(age, event_rate, D) ==
    LET primary == DOMAINS[choice(D[2], Len(DOMAINS))]
        t == choice(D[3], Len(EVENT_TEMPLATES[primary]))
        hasSecondary == D[4] * 10 < 3 * RngMod
        others == OtherDomains(primary)
    IN  IF D[1] * Unit > event_rate * RngMod
        THEN [event |-> None, rng |-> D[1]]
        ELSE IF hasSecondary
        THEN [event |-> Some(MakeEvent(age, primary, t, others[choice(D[5], Len(others))],
                                       D[6])),
              rng |-> D[6]]
        ELSE [event |-> Some(MakeEvent(age, primary, t, "None", D[5])), rng |-> D[5]]

generate_event(age, event_rate, s) ==
    Bind(rng_draws(s, 6), LAMBDA D : generate_event_from(age, event_rate, D))

(***************************************************************************)
(* entities.py: Citizen, Faction, Myth, God                                *)
(* A missing faction_id (None) is 0; a missing death_day (None) is 0.      *)
(* Names are kept as the pair of indices drawn from the name pools.        *)
(***************************************************************************)
NumCitizenPrefixes == 26
NumCitizenSuffixes == 20
NumFactionAdjectives == 8
NumFactionNouns == 8
NumGodPrefixes == 5
NumGodSuffixes == 10

\* generate_citizen_name / generate_faction_name / generate_god_name:
\* two rng.choice calls, x1 and x2 being their draws
generate_citizen_name(x1, x2) ==
    <<choice(x1, NumCitizenPrefixes), choice(x2, NumCitizenSuffixes)>>
generate_faction_name(x1, x2) ==
    <<choice(x1, NumFactionAdjectives), choice(x2, NumFactionNouns)>>
generate_god_name(domain, x1, x2) ==
    <<domain, choice(x1, NumGodPrefixes), choice(x2, NumGodSuffixes)>>

DomainPos(d) == CHOOSE i \in 1..Len(DOMAINS) : DOMAINS[i] = d

\* Citizen.generate: 6 belief draws, 2 name draws, fear, gratitude
Citizen_generate_from(faction_id, D) ==
    [row |-> [id |-> 0,
              name |-> generate_citizen_name(D[7], D[8]),
              faction_id |-> faction_id,
              belief_vector |-> [d \in Domain |-> uniform(D[DomainPos(d)], 0, 300)],
              fear |-> uniform(D[9], 100, 400),
              gratitude |-> uniform(D[10], 100, 400),
              alive |-> TRUE],
     rng |-> D[10]]

Citizen_generate(faction_id, s) ==
    Bind(rng_draws(s, 10), LAMBDA D : Citizen_generate_from(faction_id, D))

\* mutation: the upper clamp is missing
update_belief_noclamp(row, domain, delta, faction_bias) ==
    [row EXCEPT !.belief_vector[domain] =
        Max(0, row.belief_vector[domain] + (delta * faction_bias) \div Unit)]

\* Citizen.update_belief
update_belief(row, domain, delta, faction_bias) ==
    [row EXCEPT !.belief_vector[domain] =
        Max(0, Min(Unit, row.belief_vector[domain] + (delta * faction_bias) \div Unit))]

\* Citizen.update_emotion
update_emotion(row, fear_delta, gratitude_delta) ==
    [row EXCEPT !.fear = Max(0, Min(Unit, row.fear + fear_delta)),
                !.gratitude = Max(0, Min(Unit, row.gratitude + gratitude_delta))]

\* Faction.generate: 6 doctrine draws, randint(1,2), rng.sample (pool selection:
\* pick position j1 of 6, move the last item into it, pick position j2 of 5),
\* one draw per favored domain (in sample order), 2 name draws
Faction_generate_from(D) ==
    LET n == Len(DOMAINS)
        k == randint(D[7], 1, 2)
        j1 == choice(D[8], n)
        pool2 == [DOMAINS EXCEPT ![j1] = DOMAINS[n]]
        first == DOMAINS[j1]
        second == IF k = 2 THEN pool2[choice(D[9], n - 1)] ELSE "None"
        afterSample == 7 + k
    IN  [row |-> [id |-> 0,
                  name |-> generate_faction_name(D[afterSample + k + 1],
                                                 D[afterSample + k + 2]),
                  doctrine_bias |-> [d \in Domain |->
                        IF d = second THEN uniform(D[afterSample + 2], 700, Unit)
                        ELSE IF d = first THEN uniform(D[afterSample + 1], 700, Unit)
                        ELSE uniform(D[DomainPos(d)], 100, 400)]],
         rng |-> D[afterSample + k + 2]]

Faction_generate(s) == Bind(rng_draws(s, 13), LAMBDA D : Faction_generate_from(D))

\* Faction.get_bias (every domain is a key of doctrine_bias)
get_bias(frow, domain) == frow.doctrine_bias[domain]

\* Myth.create; the text is the pair (faction name, event description)
Myth_create(text, domain, confidence, faction_id, day) ==
    [id |-> 0, text |-> text, faction_id |-> faction_id, domain |-> domain,
     confidence |-> confidence, day_created |-> day]

\* God.birth: x1, x2 are the two name draws it consumes
God_birth(domain, belief_strength, coherence, day, x1, x2) ==
    [id |-> 0,
     name |-> generate_god_name(domain, x1, x2),
     domain |-> domain,
     belief_strength |-> belief_strength,
     coherence |-> coherence,
     alive |-> TRUE,
     birth_day |-> day,
     death_day |-> 0,
     consecutive_strong_days |-> 0,
     consecutive_weak_days |-> 0]

\* God.fade
God_fade(g, day) == [g EXCEPT !.alive = FALSE, !.death_day = day]

\* mutation: the stored strength and coherence are left as they were
God_update_strength_stale(g, new_strength, new_coherence) == g

\* God.update_strength
God_update_strength(g, new_strength, new_coherence) ==
    [g EXCEPT !.belief_strength = new_strength, !.coherence = new_coherence]

(***************************************************************************)
(* database.py: the store.  A table is the sequence of its rows in rowid   *)
(* order; rowids are handed out as max+1, so row i has id i.               *)
(***************************************************************************)
EmptyDb ==
    [world_state |-> None, factions |-> <<>>, citizens |-> <<>>,
     gods |-> <<>>, myths |-> <<>>]

\* mutation: the store is not wiped
clear_all_keep(d) == d

\* Database.clear_all
clear_all(d) == EmptyDb

\* save_citizen / save_god / save_faction: INSERT when the row has no id,
\* else UPDATE ... WHERE id = ? (which touches nothing when no row has the id)
save_row(table, row) ==
    IF row.id = 0 THEN Append(table, [row EXCEPT !.id = Len(table) + 1])
    ELSE IF row.id \in 1..Len(table) THEN [table EXCEPT ![row.id] = row]
    ELSE table

\* factions.name is UNIQUE: an INSERT of a taken name raises IntegrityError
faction_name_taken(d, name) == \E i \in 1..Len(d.factions) : d.factions[i].name = name

\* mutation: the query finds no god
no_god_ids(gods) == {}

\* Database.get_all_gods(alive_only=True), as the rowids selected
alive_god_ids(gods) == {i \in 1..Len(gods) : gods[i].alive}

\* Database.get_all_citizens() (alive_only defaults to True), in rowid order
get_all_citizens(d) == SelectSeq(d.citizens, LAMBDA c : c.alive)

(***************************************************************************)
(* gods.py: thresholds and GodSystem                                       *)
(***************************************************************************)
BELIEF_THRESHOLD == 600
COHERENCE_THRESHOLD == 500
CONSECUTIVE_DAYS_BIRTH == 5
CONSECUTIVE_DAYS_FADE == 7
FADE_THRESHOLD == 300

\* mutation: a new GodSystem takes every domain to be four days into a streak
GodSystem_midway == [d \in Domain |-> CONSECUTIVE_DAYS_BIRTH - 1]

\* GodSystem.__init__: the proto-god day counters
GodSystem_new == [d \in Domain |-> 0]

\* sum(B[lo..hi]) and sum(b * b for b in B[lo..hi])
RECURSIVE SumOver(_, _, _)
SumOver(B, lo, hi) ==
    IF lo > hi THEN 0
    ELSE IF lo = hi THEN B[lo]
    ELSE SumOver(B, lo, (lo + hi) \div 2) + SumOver(B, (lo + hi) \div 2 + 1, hi)

\* sum((b - avg) ** 2 for b in B[lo..hi]), in millionths
RECURSIVE SumSquaredDeviations(_, _, _, _)
SumSquaredDeviations(B, avg, lo, hi) ==
    IF lo > hi THEN 0
    ELSE IF lo = hi THEN (B[lo] - avg) * (B[lo] - avg)
    ELSE SumSquaredDeviations(B, avg, lo, (lo + hi) \div 2)
         + SumSquaredDeviations(B, avg, (lo + hi) \div 2 + 1, hi)

\* The BeliefAggregation of a non-empty list B of belief values with sum
\* total, mean avg and variance (in millionths)
aggregate_values(domain, B, total, avg, variance) ==
    [domain |-> domain,
     total_belief |-> total,
     believer_count |-> Cardinality({i \in 1..Len(B) : B[i] > 300}),
     average_belief |-> avg,
     coherence |-> Max(0, Unit - (4 * variance) \div Unit)]

\* GodSystem.aggregate_beliefs for one domain over the engine's citizen list
aggregate_domain(citizens, domain) ==
    IF Len(citizens) = 0
    THEN [domain |-> domain, total_belief |-> 0, believer_count |-> 0,
          average_belief |-> 0, coherence |-> 0]
    ELSE Bind([i \in 1..Len(citizens) |-> citizens[i].row.belief_vector[domain]],
              LAMBDA B :
                Bind(SumOver(B, 1, Len(B)), LAMBDA total :
                  Bind(total \div Len(B), LAMBDA avg :
                    aggregate_values(domain, B, total, avg,
                        SumSquaredDeviations(B, avg, 1, Len(B)) \div Len(B)))))

aggregate_beliefs(citizens) == [d \in Domain |-> aggregate_domain(citizens, d)]

\* gods.py:94
is_weak(agg) == agg.average_belief < FADE_THRESHOLD

\* mutation: the god needs one more weak day than CONSECUTIVE_DAYS_FADE
fade_due_late(weak_days) == weak_days > CONSECUTIVE_DAYS_FADE

\* gods.py:97
fade_due(weak_days) == weak_days >= CONSECUTIVE_DAYS_FADE

\* mutation: every day counts towards a birth
meets_birth_criteria_any(agg) == agg.average_belief >= 0

\* gods.py:114
meets_birth_criteria(agg) ==
    agg.average_belief >= BELIEF_THRESHOLD /\ agg.coherence >= COHERENCE_THRESHOLD

\* mutation: the god is born one day early
birth_due_early(proto_days) == proto_days >= CONSECUTIVE_DAYS_BIRTH - 1

\* mutation: the god is born on the first qualifying day
birth_due_at_once(proto_days) == proto_days >= 1

\* gods.py:116
birth_due(proto_days) == proto_days >= CONSECUTIVE_DAYS_BIRTH

\* the body of the loop over existing gods (gods.py:90-104) for one god
god_step(g, agg, current_day) ==
    LET u == God_update_strength(g, agg.average_belief, agg.coherence) IN
    IF is_weak(agg)
    THEN IF fade_due(u.consecutive_weak_days + 1)
         THEN God_fade([u EXCEPT !.consecutive_weak_days = @ + 1,
                                 !.consecutive_strong_days = 0], current_day)
         ELSE [u EXCEPT !.consecutive_weak_days = @ + 1, !.consecutive_strong_days = 0]
    ELSE [u EXCEPT !.consecutive_weak_days = 0, !.consecutive_strong_days = @ + 1]

\* mutation: the births loop does not look at the living gods
living_domains_none(gods, existing) == {}

\* gods.py:107: domains of the gods loaded this tick that are still alive
living_domains(gods, existing) == {gods[i].domain : i \in {j \in existing : gods[j].alive}}

\* mutation: a day failing the criteria leaves the counter as it is
birth_step_keep(domain, acc, agg, living, current_day) ==
    IF domain \in living THEN [acc EXCEPT !.proto[domain] = 0]
    ELSE IF meets_birth_criteria(agg)
    THEN IF birth_due(acc.proto[domain] + 1)
         THEN Bind(rng_draws(acc.rng, 2), LAMBDA D :
                Bind(save_row(acc.gods,
                              God_birth(domain, agg.average_belief, agg.coherence,
                                        current_day, D[1], D[2])),
                     LAMBDA saved :
                       [proto |-> [acc.proto EXCEPT ![domain] = 0],
                        gods |-> saved,
                        rng |-> D[2],
                        born |-> Append(acc.born, saved[Len(saved)])]))
         ELSE [acc EXCEPT !.proto[domain] = @ + 1]
    ELSE acc

\* the body of the births loop (gods.py:109-128) for one domain.
\* acc = [proto, gods, rng, born]
birth_step(domain, acc, agg, living, current_day) ==
    IF domain \in living THEN [acc EXCEPT !.proto[domain] = 0]
    ELSE IF meets_birth_criteria(agg)
    THEN IF birth_due(acc.proto[domain] + 1)
         THEN Bind(rng_draws(acc.rng, 2), LAMBDA D :
                Bind(save_row(acc.gods,
                              God_birth(domain, agg.average_belief, agg.coherence,
                                        current_day, D[1], D[2])),
                     LAMBDA saved :
                       [proto |-> [acc.proto EXCEPT ![domain] = 0],
                        gods |-> saved,
                        rng |-> D[2],
                        born |-> Append(acc.born, saved[Len(saved)])]))
         ELSE [acc EXCEPT !.proto[domain] = @ + 1]
    ELSE [acc EXCEPT !.proto[domain] = 0]

\* the births loop from the i-th domain on (aggregations.items() is in
\* DOMAINS order)
RECURSIVE birth_loop(_, _, _, _, _)
birth_loop(i, acc, aggregations, living, current_day) ==
    IF i > Len(DOMAINS) THEN acc
    ELSE Bind(birth_step(DOMAINS[i], acc, aggregations[DOMAINS[i]], living, current_day),
              LAMBDA a : birth_loop(i + 1, a, aggregations, living, current_day))

\* mutation: the gods are loaded with alive_only=False
step_gods_all(gods, aggregations, current_day) ==
    [i \in 1..Len(gods) |-> god_step(gods[i], aggregations[gods[i].domain], current_day)]

\* the loop over existing gods: every god alive in the table is stepped and saved
step_gods(gods, aggregations, current_day) ==
    [i \in 1..Len(gods) |->
        IF gods[i].alive
        THEN god_step(gods[i], aggregations[gods[i].domain], current_day)
        ELSE gods[i]]

\* GodSystem.process_gods on the store's gods table.
\* Returns the table, counters and stream afterwards, (born, faded) and the
\* aggregation it computed.
process_gods(gods, proto, citizens, current_day, s) ==
    Bind(aggregate_beliefs(citizens), LAMBDA aggregations :
      Bind(step_gods(gods, aggregations, current_day), LAMBDA stepped :
        Bind(living_domains(stepped, alive_god_ids(gods)), LAMBDA living :
          Bind(birth_loop(1, [proto |-> proto, gods |-> stepped, rng |-> s, born |-> <<>>],
                          aggregations, living, current_day),
               LAMBDA births :
                 [gods |-> births.gods,
                  proto |-> births.proto,
                  rng |-> births.rng,
                  born |-> births.born,
                  faded |-> SelectSeq(stepped, LAMBDA g : gods[g.id].alive /\ ~g.alive),
                  aggregations |-> aggregations]))))

\* GodSystem.force_belief_for_domain
force_belief_for_domain(citizens, domain, belief_level) ==
    [i \in 1..Len(citizens) |->
        [citizens[i] EXCEPT !.row.belief_vector[domain] = belief_level]]

(***************************************************************************)
(* engine.py: SimulationEngine.  A Citizen object is [row]; a Faction      *)
(* object is [row, members], members being positions in engine.citizens    *)
(* (the member list holds references to the same Citizen objects).         *)
(***************************************************************************)
INITIAL_FACTIONS == 3
INITIAL_CITIZENS_PER_FACTION == 8
UNAFFILIATED_CITIZENS == 5

\* SimulationEngine.__init__ without a narrator (narrator=None).  A narrator is
\* known by what calling it does: it "returns" or it "raises".
SimulationEngine_new(seed) ==
    [seed |-> seed,
     rng |-> rng_seed(seed),
     narrator |-> "None",
     age_manager |-> None,
     event_generator |-> FALSE,
     god_system |-> None,
     current_day |-> 0,
     factions |-> <<>>,
     citizens |-> <<>>]

\* a world state saved without the day-in-era
save_world_state_noclock(e, d) ==
    [d EXCEPT !.world_state =
        Some([id |-> 1,
              current_day |-> e.current_day,
              current_age |-> The(e.age_manager).current_age,
              age_day_counter |-> 0,
              seed |-> e.seed])]

\* SimulationEngine.__init__ with a narrator
SimulationEngine_narrated(seed, narrator) ==
    [SimulationEngine_new(seed) EXCEPT !.narrator = narrator]

\* SimulationEngine._save_world_state
save_world_state(e, d) ==
    [d EXCEPT !.world_state =
        Some([id |-> 1,
              current_day |-> e.current_day,
              current_age |-> The(e.age_manager).current_age,
              age_day_counter |-> The(e.age_manager).day_counter,
              seed |-> e.seed])]

\* One pass of a citizen-creating loop body (engine.py:85-88, 92-94).
\* st = [engine, db, raised]; fpos is the faction's position in
\* engine.factions, 0 for an unaffiliated citizen.
add_citizen(st, faction_id, fpos) ==
    Bind(Citizen_generate(faction_id, st.engine.rng), LAMBDA g :
      Bind(save_row(st.db.citizens, g.row), LAMBDA table :
        [engine |->
            [st.engine EXCEPT
                !.rng = g.rng,
                !.citizens = Append(@, [row |-> table[Len(table)]]),
                !.factions = IF fpos = 0 THEN @
                             ELSE [@ EXCEPT ![fpos].members =
                                      Append(@, Len(st.engine.citizens) + 1)]],
         db |-> [st.db EXCEPT !.citizens = table],
         raised |-> FALSE]))

RECURSIVE add_citizens(_, _, _, _)
add_citizens(st, count, faction_id, fpos) ==
    IF count = 0 THEN st
    ELSE Bind(add_citizen(st, faction_id, fpos),
              LAMBDA st2 : add_citizens(st2, count - 1, faction_id, fpos))

\* The body of the factions loop (engine.py:78-88) for one faction.
\* save_faction raises on a taken name, which ends _create_new_world there.
add_faction(st) ==
    Bind(Faction_generate(st.engine.rng), LAMBDA g :
      IF faction_name_taken(st.db, g.row.name)
      THEN [engine |-> [st.engine EXCEPT !.rng = g.rng], db |-> st.db, raised |-> TRUE]
      ELSE Bind(save_row(st.db.factions, g.row), LAMBDA table :
             Bind([engine |-> [st.engine EXCEPT
                                  !.rng = g.rng,
                                  !.factions = Append(@, [row |-> table[Len(table)],
                                                          members |-> <<>>])],
                   db |-> [st.db EXCEPT !.factions = table],
                   raised |-> FALSE],
                  LAMBDA st2 : add_citizens(st2, INITIAL_CITIZENS_PER_FACTION,
                                            Len(table), Len(st2.engine.factions)))))

RECURSIVE add_factions(_, _)
add_factions(st, count) ==
    IF count = 0 \/ st.raised THEN st
    ELSE Bind(add_faction(st), LAMBDA st2 : add_factions(st2, count - 1))

\* SimulationEngine._create_new_world
create_new_world(e, d) ==
    Bind(rng_next(e.rng), LAMBDA x :
      Bind(add_factions([engine |-> [e EXCEPT !.current_day = 0,
                                              !.age_manager = Some(AgeManager_new(x)),
                                              !.rng = x],
                         db |-> d,
                         raised |-> FALSE],
                        INITIAL_FACTIONS),
           LAMBDA withFactions :
             IF withFactions.raised THEN withFactions
             ELSE Bind(add_citizens(withFactions, UNAFFILIATED_CITIZENS, 0, 0),
                       LAMBDA st : [st EXCEPT !.db = save_world_state(st.engine, st.db)])))

\* the association loop of _restore_world without its test of the faction id
owner_first(factions, fid) ==
    IF fid # 0 /\ Len(factions) > 0 THEN 1 ELSE 0

\* engine.py:123-127: the position in `factions` of the first faction with the
\* citizen's faction_id, 0 when the citizen joins no member list
owner(factions, fid) ==
    IF fid # 0 /\ \E p \in 1..Len(factions) : factions[p].row.id = fid
    THEN CHOOSE p \in 1..Len(factions) :
           /\ factions[p].row.id = fid
           /\ \A q \in 1..(p - 1) : factions[q].row.id # fid
    ELSE 0

\* SimulationEngine._restore_world
restore_world(e, d, state) ==
    Bind(e.factions \o [i \in 1..Len(d.factions) |->
                           [row |-> d.factions[i], members |-> <<>>]],
         LAMBDA factions :
      Bind(get_all_citizens(d), LAMBDA rows :
        [engine |->
            [e EXCEPT
               !.current_day = state.current_day,
               !.seed = state.seed,
               !.rng = rng_adv(rng_seed(state.seed), state.current_day),
               !.age_manager = Some(AgeManager_from_state(state.current_age,
                                                          state.age_day_counter)),
               !.factions = [p \in 1..Len(factions) |->
                   [factions[p] EXCEPT !.members =
                       @ \o SelectSeq([i \in 1..Len(rows) |-> Len(e.citizens) + i],
                                      LAMBDA k : owner(factions,
                                          rows[k - Len(e.citizens)].faction_id) = p)]],
               !.citizens = @ \o [i \in 1..Len(rows) |-> [row |-> rows[i]]]],
         db |-> d,
         raised |-> FALSE]))

\* SimulationEngine.initialize
initialize(e, d, fresh) ==
    Bind(IF fresh THEN clear_all(d) ELSE d, LAMBDA d1 :
      Bind(IF IsNone(d1.world_state) THEN create_new_world(e, d1)
           ELSE restore_world(e, d1, The(d1.world_state)),
           LAMBDA st :
             IF st.raised THEN st
             ELSE [st EXCEPT !.engine.event_generator = TRUE,
                             !.engine.god_system = Some(GodSystem_new)]))

\* 0.8 + rng.random() * 0.4
jitter(x) == 800 + (400 * x) \div RngMod

\* engine.py:205, 213, 214: an impact scaled by the era's multiplier and jittered
scaled(impact, multiplier, x) == (((impact * multiplier) \div Unit) * jitter(x)) \div Unit

\* the body of the loop of _apply_event (engine.py:204-215) for one citizen,
\* with the three draws it consumes
apply_event_to(row, event, age_traits, faction_bias, x1, x2, x3) ==
    Bind(scaled(event.belief_impact, age_traits.belief_growth, x1), LAMBDA belief_delta :
      Bind(update_belief(row, event.primary_domain, belief_delta, faction_bias), LAMBDA r1 :
        Bind(IF event.secondary_domain # "None"
             THEN update_belief(r1, event.secondary_domain, belief_delta \div 2, faction_bias)
             ELSE r1,
             LAMBDA r2 :
               update_emotion(r2,
                   scaled(event.fear_impact, age_traits.fear_modifier, x2),
                   scaled(event.gratitude_impact, age_traits.gratitude_modifier, x3)))))

\* engine.py:197-202: the bias of the citizen's faction toward the primary
\* domain, 1.0 when the citizen has no faction (or none is found)
faction_bias_of(factions, faction_id, domain) ==
    IF owner(factions, faction_id) = 0 THEN Unit
    ELSE get_bias(factions[owner(factions, faction_id)].row, domain)

\* mutation: an event draws the citizens without faction into the first faction
apply_event_converting(e, event) ==
    Bind(rng_draws(e.rng, 3 * Len(e.citizens)), LAMBDA draws :
        [citizens |-> [i \in 1..Len(e.citizens) |->
            [row |-> [apply_event_to(e.citizens[i].row, event,
                        AGE_TRAITS[The(e.age_manager).current_age],
                        faction_bias_of(e.factions, e.citizens[i].row.faction_id,
                                        event.primary_domain),
                        draws[3 * i - 2], draws[3 * i - 1], draws[3 * i])
                      EXCEPT !.faction_id = IF @ = 0 THEN 1 ELSE @]]],
         rng |-> IF Len(draws) = 0 THEN e.rng ELSE draws[Len(draws)]])

\* SimulationEngine._apply_event: the citizen list and the stream afterwards
apply_event(e, event) ==
    Bind(rng_draws(e.rng, 3 * Len(e.citizens)), LAMBDA draws :
        [citizens |-> [i \in 1..Len(e.citizens) |->
            [row |-> apply_event_to(e.citizens[i].row, event,
                        AGE_TRAITS[The(e.age_manager).current_age],
                        faction_bias_of(e.factions, e.citizens[i].row.faction_id,
                                        event.primary_domain),
                        draws[3 * i - 2], draws[3 * i - 1], draws[3 * i])]],
         rng |-> IF Len(draws) = 0 THEN e.rng ELSE draws[Len(draws)]])

\* mutation: every myth is held with full confidence
create_myth_step_certain(acc, faction, event, day) ==
    Bind(rng_next(acc.rng), LAMBDA x :
      IF x * 10 < 3 * RngMod
      THEN Bind(save_row(acc.table,
                         Myth_create(<<faction.row.name, event.description>>,
                                     event.primary_domain, Unit, faction.row.id, day)),
                LAMBDA table :
                  [myths |-> Append(acc.myths, table[Len(table)]),
                   table |-> table,
                   rng |-> x])
      ELSE [acc EXCEPT !.rng = x])

\* the body of the loop of _create_myths (engine.py:222-233) for one faction.
\* acc = [myths, table, rng]: myths returned, the store's myths table, the stream
create_myth_step(acc, faction, event, day) ==
    Bind(rng_next(acc.rng), LAMBDA x :
      IF x * 10 < 3 * RngMod
      THEN Bind(save_row(acc.table,
                         Myth_create(<<faction.row.name, event.description>>,
                                     event.primary_domain,
                                     get_bias(faction.row, event.primary_domain),
                                     faction.row.id, day)),
                LAMBDA table :
                  [myths |-> Append(acc.myths, table[Len(table)]),
                   table |-> table,
                   rng |-> x])
      ELSE [acc EXCEPT !.rng = x])

RECURSIVE create_myths_from(_, _, _, _, _)
create_myths_from(i, acc, factions, event, day) ==
    IF i > Len(factions) THEN acc
    ELSE Bind(create_myth_step(acc, factions[i], event, day),
              LAMBDA a : create_myths_from(i + 1, a, factions, event, day))

\* SimulationEngine._create_myths
create_myths(e, table, event) ==
    create_myths_from(1, [myths |-> <<>>, table |-> table, rng |-> e.rng],
                      e.factions, event, e.current_day)

\* the loop saving every citizen (engine.py:167-168)
\* for citizens lo..hi of the list, in order
RECURSIVE save_citizens(_, _, _, _)
save_citizens(table, citizens, lo, hi) ==
    IF lo > hi THEN table
    ELSE IF lo = hi THEN save_row(table, citizens[lo].row)
    ELSE Bind(save_citizens(table, citizens, lo, (lo + hi) \div 2),
              LAMBDA t : save_citizens(t, citizens, (lo + hi) \div 2 + 1, hi))

\* The TickResult, reduced to what is observed of it: gods and myths are the
\* rows saved.  Raised stands for a tick that ended in an exception.
NoResult ==
    [status |-> "none", day |-> 0, age |-> "None", event |-> None,
     age_transition |-> "None", born_gods |-> <<>>, faded_gods |-> <<>>,
     new_myths |-> <<>>]

Raised == [NoResult EXCEPT !.status = "raised"]

\* engine.py:145: age_manager.tick(), drawing from the shared stream only on
\* a transition.  Returns the engine and the transition.
tick_age(e) ==
    Bind(rng_next(e.rng), LAMBDA x :
      Bind(AgeManager_tick(The(e.age_manager), x), LAMBDA a :
        [engine |-> [e EXCEPT !.age_manager = Some(a.am),
                              !.rng = IF a.transition = "None" THEN @ ELSE x],
         transition |-> a.transition]))

\* mutation: on a day without event every citizen's fear ebbs a little
tick_event_ebbing(e, d) ==
    Bind(generate_event(The(e.age_manager).current_age,
                        AGE_TRAITS[The(e.age_manager).current_age].event_rate, e.rng),
         LAMBDA gen :
           IF IsNone(gen.event)
           THEN [engine |-> [e EXCEPT !.rng = gen.rng,
                                      !.citizens = [i \in 1..Len(@) |->
                                          [row |-> update_emotion(@[i].row, -10, 0)]]],
                 db |-> d, event |-> None, new_myths |-> <<>>]
           ELSE Bind(apply_event([e EXCEPT !.rng = gen.rng], The(gen.event)),
                     LAMBDA applied :
                Bind([e EXCEPT !.rng = applied.rng, !.citizens = applied.citizens],
                     LAMBDA e2 :
                Bind(create_myths(e2, d.myths, The(gen.event)), LAMBDA m :
                  [engine |-> [e2 EXCEPT !.rng = m.rng],
                   db |-> [d EXCEPT !.myths = m.table],
                   event |-> gen.event,
                   new_myths |-> m.myths]))))

\* engine.py:148-158: the event, the citizens it changed, the myths it made
tick_event(e, d) ==
    Bind(generate_event(The(e.age_manager).current_age,
                        AGE_TRAITS[The(e.age_manager).current_age].event_rate, e.rng),
         LAMBDA gen :
           IF IsNone(gen.event)
           THEN [engine |-> [e EXCEPT !.rng = gen.rng], db |-> d,
                 event |-> None, new_myths |-> <<>>]
           ELSE Bind(apply_event([e EXCEPT !.rng = gen.rng], The(gen.event)),
                     LAMBDA applied :
                Bind([e EXCEPT !.rng = applied.rng, !.citizens = applied.citizens],
                     LAMBDA e2 :
                Bind(create_myths(e2, d.myths, The(gen.event)), LAMBDA m :
                  [engine |-> [e2 EXCEPT !.rng = m.rng],
                   db |-> [d EXCEPT !.myths = m.table],
                   event |-> gen.event,
                   new_myths |-> m.myths]))))

\* engine.py:160-186: gods, saving, the TickResult and the narrator, whose
\* exception leaves tick() in place of the result
tick_gods(e, d, transition, event, new_myths) ==
    Bind(process_gods(d.gods, The(e.god_system), e.citizens, e.current_day, e.rng),
         LAMBDA pg :
      Bind([e EXCEPT !.rng = pg.rng, !.god_system = Some(pg.proto)], LAMBDA e2 :
        Bind(save_citizens(d.citizens, e2.citizens, 1, Len(e2.citizens)), LAMBDA table :
          [engine |-> e2,
           db |-> save_world_state(e2, [d EXCEPT !.gods = pg.gods, !.citizens = table]),
           result |-> IF e2.narrator = "raises" THEN Raised
                      ELSE [status |-> "ok",
                            day |-> e2.current_day,
                            age |-> The(e2.age_manager).current_age,
                            event |-> event,
                            age_transition |-> transition,
                            born_gods |-> pg.born,
                            faded_gods |-> pg.faded,
                            new_myths |-> new_myths],
           aggregations |-> Some(pg.aggregations)])))

\* a tick that does not count the day
tick_uncounted(e, d) ==
    IF IsNone(e.age_manager)
    THEN [engine |-> e, db |-> d, result |-> Raised, aggregations |-> None]
    ELSE Bind(tick_age(e), LAMBDA a :
           IF ~e.event_generator
           THEN [engine |-> a.engine, db |-> d, result |-> Raised, aggregations |-> None]
           ELSE Bind(tick_event(a.engine, d), LAMBDA ev :
                  tick_gods(ev.engine, ev.db, a.transition, ev.event, ev.new_myths)))

\* mutation: the event is generated and applied before the clock advances
tick_event_first(e, d) ==
    IF IsNone(e.age_manager)
    THEN [engine |-> [e EXCEPT !.current_day = @ + 1], db |-> d,
          result |-> Raised, aggregations |-> None]
    ELSE IF ~e.event_generator
    THEN [engine |-> tick_age([e EXCEPT !.current_day = @ + 1]).engine, db |-> d,
          result |-> Raised, aggregations |-> None]
    ELSE Bind(tick_event([e EXCEPT !.current_day = @ + 1], d), LAMBDA ev :
           Bind(tick_age(ev.engine), LAMBDA a :
             tick_gods(a.engine, ev.db, a.transition, ev.event, ev.new_myths)))

\* SimulationEngine.tick.  On an engine that was never initialized the day is
\* counted and then age_manager (None) has no tick: the call raises.  When
\* initialize raised half way, the clock exists and ticks before
\* event_generator (None) raises.
tick(e, d) ==
    IF IsNone(e.age_manager)
    THEN [engine |-> [e EXCEPT !.current_day = @ + 1], db |-> d,
          result |-> Raised, aggregations |-> None]
    ELSE Bind(tick_age([e EXCEPT !.current_day = @ + 1]), LAMBDA a :
           IF ~e.event_generator
           THEN [engine |-> a.engine, db |-> d, result |-> Raised, aggregations |-> None]
           ELSE Bind(tick_event(a.engine, d), LAMBDA ev :
                  tick_gods(ev.engine, ev.db, a.transition, ev.event, ev.new_myths)))

(***************************************************************************)
(* A tick during which the store fails.  Every save_* call of the store    *)
(* commits on its own (database.py:108, 162, 196, 229), and tick() catches *)
(* nothing: when the k-th save call of a tick raises, the calls before it  *)
(* are in the store, the in-memory changes made up to it stay, and the     *)
(* exception leaves tick().  The save calls of a tick are, in order: one   *)
(* save_myth per myth made, one save_god per god that was alive, one       *)
(* save_god per god born, one save_citizen per citizen, save_world_state.  *)
(***************************************************************************)

\* _create_myths from the i-th faction on, when the k-th save_myth raises: the
\* roll for that myth has been drawn, the myth is not in the store
RECURSIVE create_myths_failing(_, _, _, _, _, _)
create_myths_failing(i, acc, factions, event, day, k) ==
    IF i > Len(factions) THEN acc
    ELSE Bind(create_myth_step(acc, factions[i], event, day), LAMBDA a :
           IF Len(a.myths) = k THEN [acc EXCEPT !.rng = a.rng]
           ELSE create_myths_failing(i + 1, a, factions, event, day, k))

\* engine.py:148-158 when the k-th save_myth raises: the event was applied to
\* every citizen before the first myth is made
tick_event_failing(e, d, k) ==
    Bind(generate_event(The(e.age_manager).current_age,
                        AGE_TRAITS[The(e.age_manager).current_age].event_rate, e.rng),
         LAMBDA gen :
      Bind(apply_event([e EXCEPT !.rng = gen.rng], The(gen.event)), LAMBDA applied :
        Bind([e EXCEPT !.rng = applied.rng, !.citizens = applied.citizens], LAMBDA e2 :
          Bind(create_myths_failing(1, [myths |-> <<>>, table |-> d.myths, rng |-> e2.rng],
                                    e2.factions, The(gen.event), e2.current_day, k),
               LAMBDA m :
                 [engine |-> [e2 EXCEPT !.rng = m.rng],
                  db |-> [d EXCEPT !.myths = m.table]]))))

\* the births loop from the i-th domain on, when the save_god of the b-th god
\* born raises: the domain's counter was incremented and the god's name drawn,
\* the counter is not reset and the god is not in the store
RECURSIVE birth_loop_failing(_, _, _, _, _, _)
birth_loop_failing(i, acc, aggregations, living, current_day, b) ==
    IF i > Len(DOMAINS) THEN acc
    ELSE Bind(birth_step(DOMAINS[i], acc, aggregations[DOMAINS[i]], living, current_day),
              LAMBDA a :
                IF Len(a.born) = b
                THEN [acc EXCEPT !.proto[DOMAINS[i]] = @ + 1, !.rng = a.rng]
                ELSE birth_loop_failing(i + 1, a, aggregations, living, current_day, b))

\* GodSystem.process_gods when its j-th save_god raises: the gods stepped
\* before it are in the store
process_gods_failing(gods, proto, citizens, current_day, s, j) ==
    Bind(aggregate_beliefs(citizens), LAMBDA aggregations :
      Bind(step_gods(gods, aggregations, current_day), LAMBDA stepped :
        Bind(alive_god_ids(gods), LAMBDA alive :
          IF j <= Cardinality(alive)
          THEN [gods |-> [i \in 1..Len(gods) |->
                            IF i \in alive /\ Cardinality({x \in alive : x <= i}) < j
                            THEN stepped[i] ELSE gods[i]],
                proto |-> proto,
                rng |-> s]
          ELSE birth_loop_failing(1, [proto |-> proto, gods |-> stepped, rng |-> s,
                                      born |-> <<>>],
                                  aggregations, living_domains(stepped, alive),
                                  current_day, j - Cardinality(alive)))))

\* what a tick of an initialized kernel does up to the saving of the citizens,
\* and the numbers of save calls it makes
tick_parts(e, d) ==
    Bind(tick_age([e EXCEPT !.current_day = @ + 1]), LAMBDA a :
      Bind(tick_event(a.engine, d), LAMBDA ev :
        Bind(process_gods(ev.db.gods, The(ev.engine.god_system), ev.engine.citizens,
                          ev.engine.current_day, ev.engine.rng),
             LAMBDA pg :
               [before |-> e,
                aged |-> a.engine,
                ev |-> ev,
                pg |-> pg,
                myths |-> Len(ev.new_myths),
                gods |-> Cardinality(alive_god_ids(ev.db.gods)) + Len(pg.born),
                citizens |-> Len(ev.engine.citizens)])))

\* the save calls of the tick
saves_in_tick(parts) == parts.myths + parts.gods + parts.citizens + 1

\* a failing tick that undoes its in-memory changes
tick_failing_rollback(parts, d, k) ==
    [engine |-> parts.before, db |-> d, result |-> Raised, aggregations |-> None]

\* SimulationEngine.tick when its k-th save call raises
tick_failing(parts, d, k) ==
    IF k <= parts.myths
    THEN Bind(tick_event_failing(parts.aged, d, k), LAMBDA f :
           [engine |-> f.engine, db |-> f.db, result |-> Raised, aggregations |-> None])
    ELSE IF k - parts.myths <= parts.gods
    THEN Bind(process_gods_failing(parts.ev.db.gods, The(parts.ev.engine.god_system),
                                   parts.ev.engine.citizens, parts.ev.engine.current_day,
                                   parts.ev.engine.rng, k - parts.myths),
              LAMBDA f :
                [engine |-> [parts.ev.engine EXCEPT !.rng = f.rng,
                                                    !.god_system = Some(f.proto)],
                 db |-> [parts.ev.db EXCEPT !.gods = f.gods],
                 result |-> Raised,
                 aggregations |-> None])
    ELSE [engine |-> [parts.ev.engine EXCEPT !.rng = parts.pg.rng,
                                             !.god_system = Some(parts.pg.proto)],
          db |-> [parts.ev.db EXCEPT
                    !.gods = parts.pg.gods,
                    !.citizens = save_citizens(@, parts.ev.engine.citizens, 1,
                                               Min(k - parts.myths - parts.gods - 1,
                                                   parts.citizens))],
          result |-> Raised,
          aggregations |-> None]

\* SimulationEngine.tick in a thread other than the one in which the store's
\* connection was made.  Database.connect calls sqlite3.connect(db_path) with
\* its defaults (database.py:19), and such a connection raises
\* ProgrammingError when another thread asks it for a cursor: the tick is left
\* at its first call of the store, save_myth for the first myth made or else
\* get_all_gods in process_gods, with the day counted, the clock advanced and
\* the event applied in memory, and nothing written.
tick_foreign(e, d) ==
    IF IsNone(e.age_manager) \/ ~e.event_generator THEN tick(e, d)
    ELSE Bind(tick_parts(e, d), LAMBDA parts :
           IF parts.myths >= 1 THEN tick_failing(parts, d, 1)
           ELSE [engine |-> parts.ev.engine, db |-> d, result |-> Raised,
                 aggregations |-> None])

\* SimulationEngine.tick called in thread t on a store connected in thread conn
tick_in(t, conn, e, d) == IF t = conn THEN tick(e, d) ELSE tick_foreign(e, d)

(***************************************************************************)
(* The kernel as a state machine: construction, initialize, tick, and the  *)
(* test hook force_belief_for_domain, with the observers the properties    *)
(* below are stated over.                                                  *)
(***************************************************************************)
Seeds == 1..NumSeeds
ForceDomains == {DOMAINS[i] : i \in 1..NumForceDomains}
ForceLevels == {0, 700}

Initialized(e) == ~IsNone(e.age_manager) /\ e.event_generator /\ ~IsNone(e.god_system)

\* domains of the gods alive in a gods table
LivingIn(gods) == {gods[i].domain : i \in alive_god_ids(gods)}

\* domains of a sequence of god rows
DomainsOf(rows) == {rows[i].domain : i \in 1..Len(rows)}

Qualifies(agg) == agg.average_belief >= 600 /\ agg.coherence >= 500
Weak(agg) == agg.average_belief < 300

\* where a kernel stands: its day, era and day-in-era
Standing(e) ==
    [day |-> e.current_day,
     age |-> The(e.age_manager).current_age,
     counter |-> The(e.age_manager).day_counter]

ZeroRuns == [d \in Domain |-> 0]
AllTrue == [d \in Domain |-> TRUE]

EngStart(inits, forces, days) ==
    /\ engine \in {SimulationEngine_new(seed) : seed \in Seeds}
    /\ db = EmptyDb
    /\ result = NoResult
    /\ ascRun = ZeroRuns
    /\ weakRun = ZeroRuns
    /\ allQual = AllTrue
    /\ run = 0
    /\ left = [inits |-> inits, forces |-> forces, days |-> days, faults |-> 0]
    /\ ticks = -1
    /\ orig = None
    /\ streakWas = None

EngIdle ==
    /\ engine = SimulationEngine_new(0)
    /\ db = EmptyDb
    /\ result = NoResult
    /\ ascRun = ZeroRuns
    /\ weakRun = ZeroRuns
    /\ allQual = AllTrue
    /\ run = 0
    /\ left = [inits |-> 0, forces |-> 0, days |-> 0, faults |-> 0]
    /\ ticks = -1
    /\ orig = None
    /\ streakWas = None

DetIdle ==
    /\ engine2 = SimulationEngine_new(0)
    /\ db2 = EmptyDb
    /\ trace1 = <<>>
    /\ trace2 = <<>>

ClockIdle ==
    /\ clock = AgeManager_from_state("Emergence", 0)
    /\ clockSaved = <<"Emergence", 0>>
    /\ since = 0
    /\ origin = "genesis"

AgeIdle ==
    /\ era0 = "Emergence"
    /\ eraPath = <<>>

ApplyIdle ==
    /\ citizen = None
    /\ nApplied = 0

\* the threads of a SimulationManager: callers of its methods, and tick
\* threads; Loops are the tick threads SpecManager lets start() create,
\* AutoLoops those SpecAutoRun does
Callers == 1..NumCallers
Loops == (NumCallers + 1)..(NumCallers + NumLoops)
AutoLoops == (NumCallers + 1)..(NumCallers + Max(NumLoops, NumAutoLoops))
Threads == Callers \cup AutoLoops

\* SimulationManager.__init__ (self.engine = None is has_engine = FALSE; lock
\* is the thread holding self._lock, 0 when it is free; tick_thread is the
\* thread self._tick_thread refers to, 0 for None; conn is the thread in which
\* the connection self.db.conn was made, 0 while there is none)
SimulationManager_new ==
    [has_engine |-> FALSE,
     lock |-> 0,
     running |-> FALSE,
     tick_thread |-> 0,
     conn |-> 0,
     subscribers |-> <<>>,
     scars |-> {}]

\* the locals of a call: the TickResult (status and day), the copy of the
\* subscriber list being walked and the position in it, the callbacks invoked
\* so far and what they were given, the call's arguments; and the outcome of
\* the thread's last call, which is all that is kept of a call that ended
EmptyFrame ==
    [result |-> [status |-> "none", day |-> 0],
     copy |-> <<>>,
     idx |-> 0,
     got |-> <<>>,
     fresh |-> FALSE,
     seed |-> 0,
     outcome |-> "none"]

MgrStart ==
    /\ mgr = SimulationManager_new
    /\ pc = [t \in Threads |-> IF t \in Callers THEN "idle" ELSE "off"]
    /\ frame = [t \in Threads |-> EmptyFrame]

MgrIdle == MgrStart

\* engine.initialize(fresh): a fresh genesis wipes the store and with it the
\* gods; any initialize replaces the GodSystem, whose counters start at 0.
Initialize(fresh) ==
    /\ left.inits > 0
    /\ \E st \in {initialize(engine, db, fresh)} :
        /\ engine' = st.engine
        /\ db' = st.db
        /\ ticks' = IF st.raised THEN -1
                    ELSE IF fresh \/ IsNone(db.world_state) THEN 0
                    ELSE ticks
    /\ result' = NoResult
    /\ ascRun' = ZeroRuns
    /\ weakRun' = IF fresh THEN ZeroRuns ELSE weakRun
    /\ allQual' = IF fresh THEN AllTrue ELSE allQual
    /\ run' = 0
    /\ orig' = IF fresh THEN None ELSE orig
    /\ streakWas' = None
    /\ left' = [left EXCEPT !.inits = @ - 1]
    /\ UNCHANGED <<detVars, clockVars, ageVars, applyVars, mgrVars>>

\* a new process: SimulationEngine(db, seed) over the same store
NewEngine(seed) ==
    /\ left.inits > 0
    /\ ~IsNone(engine.age_manager)
    /\ engine' = SimulationEngine_new(seed)
    /\ result' = NoResult
    /\ ascRun' = ZeroRuns
    /\ run' = 0
    /\ orig' = IF Initialized(engine) THEN Some(Standing(engine)) ELSE None
    /\ streakWas' = None
    /\ UNCHANGED <<db, weakRun, allQual, left, ticks>>
    /\ UNCHANGED <<detVars, clockVars, ageVars, applyVars, mgrVars>>

\* the observers after a completed tick r from store d
AscRunAfter(r, d, proto) ==
    [dom \in Domain |->
        IF dom \in LivingIn(d.gods) \/ ~Qualifies(The(r.aggregations)[dom]) THEN 0
        ELSE IF ascRun[dom] > 0 THEN Min(ascRun[dom] + 1, CONSECUTIVE_DAYS_BIRTH + 1)
        ELSE IF proto[dom] = 0 THEN 1
        ELSE 0]

WeakRunAfter(r, d) ==
    [dom \in Domain |->
        IF dom \in LivingIn(d.gods) /\ Weak(The(r.aggregations)[dom])
        THEN Min(weakRun[dom] + 1, CONSECUTIVE_DAYS_FADE + 1)
        ELSE 0]

AllQualAfter(r) ==
    [dom \in Domain |-> allQual[dom] /\ Qualifies(The(r.aggregations)[dom])]

\* engine.tick()
Tick ==
    /\ engine.current_day < left.days
    /\ \E r \in {tick(engine, db)} :
        /\ engine' = r.engine
        /\ db' = r.db
        /\ result' = r.result
        /\ IF r.result.status = "ok"
           THEN /\ ascRun' = AscRunAfter(r, db, The(engine.god_system))
                /\ weakRun' = WeakRunAfter(r, db)
                /\ allQual' = AllQualAfter(r)
                /\ run' = Min(run + 1, CONSECUTIVE_DAYS_BIRTH)
                /\ ticks' = IF ticks >= 0 THEN ticks + 1 ELSE ticks
                /\ orig' = None
                /\ streakWas' = engine.god_system
           ELSE UNCHANGED <<ascRun, weakRun, allQual, run, ticks, orig, streakWas>>
    /\ UNCHANGED left
    /\ UNCHANGED <<detVars, clockVars, ageVars, applyVars, mgrVars>>

\* god_system.force_belief_for_domain(engine._citizens, domain, level)
ForceBelief(domain, level) ==
    /\ left.forces > 0
    /\ Initialized(engine)
    /\ engine' = [engine EXCEPT !.citizens = force_belief_for_domain(@, domain, level)]
    /\ left' = [left EXCEPT !.forces = @ - 1]
    /\ UNCHANGED <<db, result, ascRun, weakRun, allQual, run, ticks, orig, streakWas>>
    /\ UNCHANGED <<detVars, clockVars, ageVars, applyVars, mgrVars>>

\* one kernel: initialize once, then tick, with beliefs forced at will
Init == EngStart(1, MaxForces, MaxDay) /\ DetIdle /\ ClockIdle /\ AgeIdle /\ ApplyIdle /\ MgrIdle

Next ==
    \/ \E fresh \in BOOLEAN : Initialize(fresh)
    \/ Tick
    \/ \E domain \in ForceDomains, level \in ForceLevels : ForceBelief(domain, level)

Spec == Init /\ [][Next]_vars

\* any sequence of initialize (fresh or restore) and tick, on the same engine
\* or on a new engine over the same store
RestartInit ==
    /\ EngStart(RestartMaxInits, RestartMaxForces, RestartMaxDay)
    /\ DetIdle /\ ClockIdle /\ AgeIdle /\ ApplyIdle /\ MgrIdle

RestartNext ==
    \/ \E fresh \in BOOLEAN : Initialize(fresh)
    \/ \E seed \in Seeds : NewEngine(seed)
    \/ Tick
    \/ \E domain \in ForceDomains, level \in ForceLevels : ForceBelief(domain, level)

SpecRestart == RestartInit /\ [][RestartNext]_vars

(***************************************************************************)
(* A kernel whose store may fail: during a tick any one of the save calls  *)
(* may raise (disk full, database locked).  The caller may then go on      *)
(* ticking the kernel.                                                     *)
(***************************************************************************)
FailInit ==
    /\ engine \in {SimulationEngine_new(seed) : seed \in Seeds}
    /\ db = EmptyDb
    /\ result = NoResult
    /\ ascRun = ZeroRuns
    /\ weakRun = ZeroRuns
    /\ allQual = AllTrue
    /\ run = 0
    /\ left = [inits |-> 1, forces |-> FailMaxForces, days |-> FailMaxDay,
               faults |-> FailMaxFaults]
    /\ ticks = -1
    /\ orig = None
    /\ streakWas = None
    /\ DetIdle /\ ClockIdle /\ AgeIdle /\ ApplyIdle /\ MgrIdle

\* engine.tick() during which a save call of the store raises
FailingTick ==
    /\ left.faults > 0
    /\ Initialized(engine)
    /\ engine.current_day < left.days
    /\ \E parts \in {tick_parts(engine, db)} :
         \E k \in 1..saves_in_tick(parts) :
           \E r \in {tick_failing(parts, db, k)} :
             /\ engine' = r.engine
             /\ db' = r.db
             /\ result' = r.result
    /\ left' = [left EXCEPT !.faults = @ - 1]
    /\ UNCHANGED <<ascRun, weakRun, allQual, run, ticks, orig, streakWas>>
    /\ UNCHANGED <<detVars, clockVars, ageVars, applyVars, mgrVars>>

FailNext ==
    \/ \E fresh \in BOOLEAN : Initialize(fresh)
    \/ Tick
    \/ FailingTick
    \/ \E domain \in ForceDomains, level \in ForceLevels : ForceBelief(domain, level)

SpecFailure == FailInit /\ [][FailNext]_vars

(***************************************************************************)
(* A store damaged between two runs: while no kernel is initialized over   *)
(* it, the gods table gets a second row for a living god (a row written    *)
(* twice, a merge of two stores).  The gods table has no constraint on     *)
(* domain, so the store accepts the row.  A new kernel is then restored    *)
(* from the store and ticked.                                              *)
(***************************************************************************)
CorruptInit ==
    /\ engine \in {SimulationEngine_new(seed) : seed \in Seeds}
    /\ db = EmptyDb
    /\ result = NoResult
    /\ ascRun = ZeroRuns
    /\ weakRun = ZeroRuns
    /\ allQual = AllTrue
    /\ run = 0
    /\ left = [inits |-> CorruptMaxInits, forces |-> CorruptMaxForces,
               days |-> CorruptMaxDay, faults |-> CorruptMaxFaults]
    /\ ticks = -1
    /\ orig = None
    /\ streakWas = None
    /\ DetIdle /\ ClockIdle /\ AgeIdle /\ ApplyIdle /\ MgrIdle

\* INSERT INTO gods of a copy of the row of a living god of the domain
Corrupt(domain) ==
    /\ left.faults > 0
    /\ IsNone(engine.age_manager)
    /\ \E i \in alive_god_ids(db.gods) :
        /\ db.gods[i].domain = domain
        /\ db' = [db EXCEPT !.gods = save_row(@, [db.gods[i] EXCEPT !.id = 0])]
    /\ left' = [left EXCEPT !.faults = @ - 1]
    /\ UNCHANGED <<engine, result, ascRun, weakRun, allQual, run, ticks, orig, streakWas>>
    /\ UNCHANGED <<detVars, clockVars, ageVars, applyVars, mgrVars>>

CorruptNext ==
    \/ \E fresh \in BOOLEAN : Initialize(fresh)
    \/ \E seed \in {1} : NewEngine(seed)
    \/ Tick
    \/ \E domain \in ForceDomains : ForceBelief(domain, 700)
    \/ \E domain \in ForceDomains : Corrupt(domain)

SpecCorrupt == CorruptInit /\ [][CorruptNext]_vars

(***************************************************************************)
(* A kernel that lives through an era transition: of the seeds looked      *)
(* through, those whose genesis draws the shortest Emergence (20 days),    *)
(* initialized once and ticked past the transition, with the river beliefs *)
(* forced up at some point so that a god is alive when it comes.           *)
(***************************************************************************)
PipelineSeeds ==
    {seed \in 1..NumPipelineSeeds :
        AgeManager_new(rng_next(rng_seed(seed))).age_duration
            = AGE_TRAITS["Emergence"].min_days}

PipelineInit ==
    /\ engine \in {SimulationEngine_new(seed) : seed \in PipelineSeeds}
    /\ db = EmptyDb
    /\ result = NoResult
    /\ ascRun = ZeroRuns
    /\ weakRun = ZeroRuns
    /\ allQual = AllTrue
    /\ run = 0
    /\ left = [inits |-> 1, forces |-> PipelineMaxForces, days |-> PipelineMaxDay,
               faults |-> 0]
    /\ ticks = -1
    /\ orig = None
    /\ streakWas = None
    /\ DetIdle /\ ClockIdle /\ AgeIdle /\ ApplyIdle /\ MgrIdle

PipelineNext ==
    \/ Initialize(TRUE)
    \/ Tick
    \/ \E domain \in ForceDomains : ForceBelief(domain, 700)

SpecPipeline == PipelineInit /\ [][PipelineNext]_vars

(***************************************************************************)
(* A kernel that lives long enough for a domain to have a god, lose it and *)
(* have another: one seed, initialized once, with the beliefs of a domain  *)
(* forced up, down and up again.                                           *)
(***************************************************************************)
RebirthInit ==
    /\ engine = SimulationEngine_new(1)
    /\ db = EmptyDb
    /\ result = NoResult
    /\ ascRun = ZeroRuns
    /\ weakRun = ZeroRuns
    /\ allQual = AllTrue
    /\ run = 0
    /\ left = [inits |-> 1, forces |-> RebirthMaxForces, days |-> RebirthMaxDay,
               faults |-> 0]
    /\ ticks = -1
    /\ orig = None
    /\ streakWas = None
    /\ DetIdle /\ ClockIdle /\ AgeIdle /\ ApplyIdle /\ MgrIdle

RebirthNext ==
    \/ Initialize(TRUE)
    \/ Tick
    \/ \E domain \in ForceDomains, level \in ForceLevels : ForceBelief(domain, level)

SpecRebirth == RebirthInit /\ [][RebirthNext]_vars

(***************************************************************************)
(* Persistence round trips: a kernel is initialized and ticked; at any     *)
(* point the process may end and a new kernel (any seed) be constructed    *)
(* over the same store and initialized with fresh=False.  No beliefs are   *)
(* forced, which leaves room for runs long enough to change era.           *)
(***************************************************************************)
RoundTripInit ==
    /\ EngStart(RoundTripMaxInits, 0, RoundTripMaxDay)
    /\ DetIdle /\ ClockIdle /\ AgeIdle /\ ApplyIdle /\ MgrIdle

RoundTripNext ==
    \/ Initialize(FALSE)
    \/ \E seed \in Seeds : NewEngine(seed)
    \/ Tick

SpecRoundTrip == RoundTripInit /\ [][RoundTripNext]_vars

(***************************************************************************)
(* A kernel constructed with a narrator: none, one that returns, or one    *)
(* that raises when called.                                                *)
(***************************************************************************)
Narrators == {"None", "returns", "raises"}

NarratedInit ==
    /\ engine \in {SimulationEngine_narrated(seed, n) : seed \in Seeds, n \in Narrators}
    /\ db = EmptyDb
    /\ result = NoResult
    /\ ascRun = ZeroRuns
    /\ weakRun = ZeroRuns
    /\ allQual = AllTrue
    /\ run = 0
    /\ left = [inits |-> 1, forces |-> 0, days |-> NarratedMaxDay, faults |-> 0]
    /\ ticks = -1
    /\ orig = None
    /\ streakWas = None
    /\ DetIdle /\ ClockIdle /\ AgeIdle /\ ApplyIdle /\ MgrIdle

NarratedNext ==
    \/ \E fresh \in BOOLEAN : Initialize(fresh)
    \/ Tick

SpecNarrated == NarratedInit /\ [][NarratedNext]_vars

(***************************************************************************)
(* Genesis on its own: a kernel constructed with any of many seeds over an *)
(* empty store, and initialize(fresh=True) called on it once.              *)
(***************************************************************************)
GenesisInit ==
    /\ engine \in {SimulationEngine_new(seed) : seed \in 1..NumGenesisSeeds}
    /\ db = EmptyDb
    /\ result = NoResult
    /\ ascRun = ZeroRuns
    /\ weakRun = ZeroRuns
    /\ allQual = AllTrue
    /\ run = 0
    /\ left = [inits |-> 1, forces |-> 0, days |-> 0, faults |-> 0]
    /\ ticks = -1
    /\ orig = None
    /\ streakWas = None
    /\ DetIdle /\ ClockIdle /\ AgeIdle /\ ApplyIdle /\ MgrIdle

GenesisNext == Initialize(TRUE)

SpecGenesis == GenesisInit /\ [][GenesisNext]_vars

(***************************************************************************)
(* Age.next on its own: a walk along the successor function.               *)
(***************************************************************************)
AgeInit ==
    /\ era0 \in Ages
    /\ eraPath = <<>>
    /\ EngIdle /\ DetIdle /\ ClockIdle /\ ApplyIdle /\ MgrIdle

\* era.next() applied to the era reached so far
StepNext ==
    /\ Len(eraPath) < MaxNextSteps
    /\ eraPath' = Append(eraPath,
                         Age_next(IF eraPath = <<>> THEN era0 ELSE eraPath[Len(eraPath)]))
    /\ UNCHANGED <<era0, engVars, detVars, clockVars, applyVars, mgrVars>>

SpecAge == AgeInit /\ [][StepNext]_vars

(***************************************************************************)
(* The era clock on its own: an AgeManager whose draws are arbitrary, that *)
(* is persisted after every advance as the kernel does (engine.py:129-138) *)
(* and can be rebuilt from the persisted pair (engine.py:111-114).         *)
(***************************************************************************)
ClockDraws == {(k * RngMod) \div NumClockDraws : k \in 0..(NumClockDraws - 1)}
                  \cup {RngMod - 1}

ClockInit ==
    /\ clock \in {AgeManager_new(x) : x \in ClockDraws}
    /\ clockSaved = <<"Emergence", 0>>
    /\ since = 0
    /\ origin = "genesis"
    /\ EngIdle /\ DetIdle /\ AgeIdle /\ ApplyIdle /\ MgrIdle

\* age_manager.tick() followed by _save_world_state()
ClockTick(x) ==
    /\ \E r \in {AgeManager_tick(clock, x)} :
        /\ clock' = r.am
        /\ clockSaved' = <<r.am.current_age, r.am.day_counter>>
        /\ since' = IF r.transition = "None" THEN since + 1 ELSE 0
        /\ origin' = IF r.transition = "None" THEN origin ELSE "transition"
    /\ UNCHANGED <<engVars, detVars, ageVars, applyVars, mgrVars>>

\* AgeManager.from_state(current_age, age_day_counter) of the persisted pair
ClockRestore ==
    /\ clock' = AgeManager_from_state(clockSaved[1], clockSaved[2])
    /\ origin' = "restore"
    /\ UNCHANGED <<clockSaved, since>>
    /\ UNCHANGED <<engVars, detVars, ageVars, applyVars, mgrVars>>

ClockAdvance == \E x \in ClockDraws : ClockTick(x)

ClockNext == ClockAdvance \/ ClockRestore

SpecClock == ClockInit /\ [][ClockNext]_vars

\* advance() is called again and again (the run loop ticks until stopped)
SpecClockFair == SpecClock /\ WF_vars(ClockAdvance)

(***************************************************************************)
(* Two kernels side by side, each bound to a store of its own.  A kernel   *)
(* is constructed, initialized by fresh genesis, and ticked; a new kernel  *)
(* with the same seed may be constructed over the store the old one left.  *)
(* The traces hold what is compared of the TickResults since construction. *)
(* Beliefs may be forced once, between initialize and the first tick (as   *)
(* the tests do, so that gods are born within a few days); a forcing is    *)
(* recorded in the trace, as only equally treated kernels are comparable.  *)
(***************************************************************************)
Observed(r) ==
    [era |-> r.age,
     event |-> IF IsNone(r.event) THEN "no-event" ELSE The(r.event).name,
     born |-> DomainsOf(r.born_gods),
     faded |-> DomainsOf(r.faded_gods)]

\* the trace entry recording a forcing
Forced == [era |-> "forced", event |-> "forced", born |-> {}, faded |-> {}]

DetInit ==
    /\ engine \in {SimulationEngine_new(seed) : seed \in Seeds}
    /\ engine2 \in {SimulationEngine_new(seed) : seed \in Seeds}
    /\ db = EmptyDb
    /\ db2 = EmptyDb
    /\ trace1 = <<>>
    /\ trace2 = <<>>
    /\ result = NoResult
    /\ ascRun = ZeroRuns
    /\ weakRun = ZeroRuns
    /\ allQual = AllTrue
    /\ run = 0
    /\ left = [inits |-> MaxDetEngines, forces |-> 0, days |-> MaxDetDay, faults |-> 0]
    /\ ticks = -1
    /\ orig = None
    /\ streakWas = None
    /\ ClockIdle /\ AgeIdle /\ ApplyIdle /\ MgrIdle

DetUnchanged == UNCHANGED <<result, ascRun, weakRun, allQual, run, ticks, orig, streakWas,
                            clockVars, ageVars, applyVars, mgrVars>>

\* engine.initialize(fresh=True) on the first kernel
DetInitialize1 ==
    /\ IsNone(engine.age_manager)
    /\ \E st \in {initialize(engine, db, TRUE)} :
        /\ engine' = st.engine
        /\ db' = st.db
    /\ UNCHANGED <<engine2, db2, trace1, trace2, left>>
    /\ DetUnchanged

\* engine.initialize(fresh=True) on the second kernel
DetInitialize2 ==
    /\ IsNone(engine2.age_manager)
    /\ \E st \in {initialize(engine2, db2, TRUE)} :
        /\ engine2' = st.engine
        /\ db2' = st.db
    /\ UNCHANGED <<engine, db, trace1, trace2, left>>
    /\ DetUnchanged

\* engine.tick() on the first kernel
DetTick1 ==
    /\ engine.current_day < left.days
    /\ \E r \in {tick(engine, db)} :
        /\ engine' = r.engine
        /\ db' = r.db
        /\ trace1' = IF r.result.status = "ok"
                     THEN Append(trace1, Observed(r.result)) ELSE trace1
    /\ UNCHANGED <<engine2, db2, trace2, left>>
    /\ DetUnchanged

\* engine.tick() on the second kernel
DetTick2 ==
    /\ engine2.current_day < left.days
    /\ \E r \in {tick(engine2, db2)} :
        /\ engine2' = r.engine
        /\ db2' = r.db
        /\ trace2' = IF r.result.status = "ok"
                     THEN Append(trace2, Observed(r.result)) ELSE trace2
    /\ UNCHANGED <<engine, db, trace1, left>>
    /\ DetUnchanged

\* force_belief_for_domain on the first kernel's citizens, before its first tick
DetForce1 ==
    /\ Initialized(engine)
    /\ trace1 = <<>>
    /\ engine' = [engine EXCEPT
                     !.citizens = force_belief_for_domain(@, DOMAINS[1], 700)]
    /\ trace1' = <<Forced>>
    /\ UNCHANGED <<db, engine2, db2, trace2, left>>
    /\ DetUnchanged

\* force_belief_for_domain on the second kernel's citizens, before its first tick
DetForce2 ==
    /\ Initialized(engine2)
    /\ trace2 = <<>>
    /\ engine2' = [engine2 EXCEPT
                      !.citizens = force_belief_for_domain(@, DOMAINS[1], 700)]
    /\ trace2' = <<Forced>>
    /\ UNCHANGED <<engine, db, db2, trace1, left>>
    /\ DetUnchanged

\* SimulationEngine(db2, seed) once more, over the store the second kernel used
DetNewEngine2 ==
    /\ left.inits > 0
    /\ ~IsNone(engine2.age_manager)
    /\ engine2' = SimulationEngine_new(engine2.seed)
    /\ trace2' = <<>>
    /\ left' = [left EXCEPT !.inits = @ - 1]
    /\ UNCHANGED <<engine, db, db2, trace1>>
    /\ DetUnchanged

DetNext ==
    \/ DetInitialize1
    \/ DetInitialize2
    \/ DetTick1
    \/ DetTick2
    \/ DetForce1
    \/ DetForce2
    \/ DetNewEngine2

SpecDet == DetInit /\ [][DetNext]_vars

(***************************************************************************)
(* The belief update on its own: one citizen put through the loop body of  *)
(* _apply_event with arbitrary events, eras, biases and jitter draws.      *)
(***************************************************************************)
ApplyDraws == {0, RngMod - 1}
ApplyBiases == {100, Unit}
ApplySecondaries == {"None", DOMAINS[2]}

ApplyInit ==
    /\ citizen \in {Some(Citizen_generate_from(0, [i \in 1..10 |-> x]).row) :
                       x \in ApplyDraws}
    /\ nApplied = 0
    /\ EngIdle /\ DetIdle /\ ClockIdle /\ AgeIdle /\ MgrIdle

\* one pass of the loop body of _apply_event on the citizen; the draw x serves
\* for the event's magnitude and for the three jitters
ApplyEvent(age, t, secondary, bias, x) ==
    /\ nApplied < MaxApplied
    /\ citizen' = Some(apply_event_to(The(citizen),
                                      MakeEvent(age, DOMAINS[1], t, secondary, x),
                                      AGE_TRAITS[age], bias, x, x, x))
    /\ nApplied' = nApplied + 1
    /\ UNCHANGED <<engVars, detVars, clockVars, ageVars, mgrVars>>

ApplyNext ==
    \E age \in Ages, t \in 1..Len(EVENT_TEMPLATES[DOMAINS[1]]),
       secondary \in ApplySecondaries, bias \in ApplyBiases, x \in ApplyDraws :
        ApplyEvent(age, t, secondary, bias, x)

SpecApply == ApplyInit /\ [][ApplyNext]_vars

(***************************************************************************)
(* The SimulationManager: threads call step(), initialize(), start() and   *)
(* stop(), a tick thread started by start() calls step() while _running,   *)
(* callbacks are subscribed and unsubscribed at any time.  A call is split *)
(* where other threads can run: a thread is at "step_tick" while it        *)
(* executes engine.tick(), at "init_run" while it executes                 *)
(* engine.initialize(), at "step_broadcast" between two callbacks, at      *)
(* "start_set" between the test of _running and its setting in start(), at *)
(* "stop_join" while stop() waits in join(); a tick thread is at           *)
(* "loop_check" before the test of its while loop and at "step_call" once  *)
(* it has called step() and waits for the lock.  A subscribed callback is  *)
(* known by what calling it does: it returns, it raises, or it reads the   *)
(* manager's current_day (or get_current_state()) and returns.             *)
(***************************************************************************)
CallbackKinds == {"returns", "raises"}
MgrSeeds == {1}

\* `with self._lock`: whether the lock can be taken
lock_ignored(m) == TRUE

lock_free(m) == m.lock = 0

\* the `with self._lock` block of step() extends over _update_historical_scars
\* and _broadcast_tick: the lock stays with thread t when engine.tick() returns
with_lock(t) == t

\* the try/except around callback(result) in _broadcast_tick: whether the
\* loop goes on to the next callback or the exception leaves the loop
broadcast_one_unguarded(kind) == IF kind = "raises" THEN "propagate" ELSE "continue"

broadcast_one(kind) == "continue"

\* SimulationManager._update_historical_scars; a scar is kept under the god's
\* name, which fixes its grid position
update_historical_scars(scars, r) ==
    IF r.age_transition = "Emergence" THEN {}
    ELSE IF r.age = "Collapse"
    THEN {sc \in scars : \A i \in 1..Len(r.faded_gods) : sc.god_name # r.faded_gods[i].name}
         \cup {[god_name |-> r.faded_gods[i].name,
                 domain |-> r.faded_gods[i].domain,
                 death_day |-> r.day] : i \in 1..Len(r.faded_gods)}
    ELSE scars

\* mutation: _tick_loop catches the exception and goes on
Propagated_loop_goes_on(t) ==
    /\ mgr' = [mgr EXCEPT !.lock = 0]
    /\ pc' = [pc EXCEPT ![t] = IF t \in AutoLoops THEN "loop_check" ELSE "idle"]

\* an exception leaves step() or initialize() in thread t: the lock is
\* released; in a tick thread, _tick_loop catches it and clears _running
Propagated(t) ==
    /\ mgr' = [mgr EXCEPT !.lock = 0,
                          !.running = IF t \in AutoLoops THEN FALSE ELSE @]
    /\ pc' = [pc EXCEPT ![t] = IF t \in AutoLoops THEN "loop_check" ELSE "idle"]

ManagerInit ==
    /\ MgrStart
    /\ engine = SimulationEngine_new(0)
    /\ db = EmptyDb
    /\ result = NoResult
    /\ ascRun = ZeroRuns
    /\ weakRun = ZeroRuns
    /\ allQual = AllTrue
    /\ run = 0
    /\ left = [inits |-> MgrMaxInits, forces |-> 0, days |-> MgrMaxDay, faults |-> 0]
    /\ ticks = -1
    /\ orig = None
    /\ streakWas = None
    /\ DetIdle /\ ClockIdle /\ AgeIdle /\ ApplyIdle

MgrUnchanged == UNCHANGED <<ascRun, weakRun, allQual, run, ticks, orig, streakWas,
                            detVars, clockVars, ageVars, applyVars>>

\* step() up to the call of engine.tick(): the lock is taken; without an engine
\* RuntimeError is raised
StepEnter(t) ==
    /\ \/ t \in Callers /\ pc[t] = "idle"
       \/ t \in AutoLoops /\ pc[t] = "step_call"
    /\ lock_free(mgr)
    /\ IF ~mgr.has_engine
       THEN /\ Propagated(t)
            /\ frame' = [frame EXCEPT ![t] = [EmptyFrame EXCEPT !.outcome = "raised"]]
       ELSE /\ engine.current_day < left.days
            /\ mgr' = [mgr EXCEPT !.lock = t]
            /\ pc' = [pc EXCEPT ![t] = "step_tick"]
            /\ frame' = [frame EXCEPT ![t] = EmptyFrame]
    /\ UNCHANGED <<engine, db, result, left>>
    /\ MgrUnchanged

\* engine.tick() returns or raises; on a result the scars are updated and
\* _broadcast_tick copies the subscriber list
StepTick(t) ==
    /\ pc[t] = "step_tick"
    /\ \E r \in {tick_in(t, mgr.conn, engine, db)} :
        /\ engine' = r.engine
        /\ db' = r.db
        /\ result' = r.result
        /\ IF r.result.status = "ok"
           THEN /\ mgr' = [mgr EXCEPT !.scars = update_historical_scars(@, r.result),
                                      !.lock = with_lock(t)]
                /\ pc' = [pc EXCEPT ![t] = "step_broadcast"]
                /\ frame' = [frame EXCEPT ![t] =
                                [@ EXCEPT !.result = [status |-> "ok", day |-> r.result.day],
                                          !.copy = mgr.subscribers,
                                          !.idx = 1]]
           ELSE /\ Propagated(t)
                /\ frame' = [frame EXCEPT ![t] = [EmptyFrame EXCEPT !.outcome = "raised"]]
    /\ UNCHANGED left
    /\ MgrUnchanged

\* one pass of the loop of _broadcast_tick: callback(result).  A callback
\* that reads current_day or get_current_state() enters `with self._lock`
\* there, in the thread that is broadcasting, and goes on when it has had the
\* lock
StepDeliver(t) ==
    /\ pc[t] = "step_broadcast"
    /\ frame[t].idx <= Len(frame[t].copy)
    /\ frame[t].copy[frame[t].idx] = "reads" => lock_free(mgr)
    /\ IF broadcast_one(frame[t].copy[frame[t].idx]) = "continue"
       THEN /\ frame' = [frame EXCEPT ![t] =
                            [@ EXCEPT !.got = Append(@, [callback |-> frame[t].idx,
                                                         day |-> frame[t].result.day]),
                                      !.idx = @ + 1]]
            /\ UNCHANGED <<mgr, pc>>
       ELSE /\ Propagated(t)
            /\ frame' = [frame EXCEPT ![t] = [EmptyFrame EXCEPT !.outcome = "raised"]]
    /\ UNCHANGED <<engine, db, result, left>>
    /\ MgrUnchanged

\* the end of _broadcast_tick: step() returns the result and the lock is
\* released (a tick thread then sleeps and checks _running again)
StepReturn(t) ==
    /\ pc[t] = "step_broadcast"
    /\ frame[t].idx > Len(frame[t].copy)
    /\ mgr' = [mgr EXCEPT !.lock = 0]
    /\ pc' = [pc EXCEPT ![t] = IF t \in AutoLoops THEN "loop_check" ELSE "idle"]
    /\ frame' = [frame EXCEPT ![t] = [EmptyFrame EXCEPT !.outcome = "returned"]]
    /\ UNCHANGED <<engine, db, result, left>>
    /\ MgrUnchanged

\* initialize(fresh, seed) up to the call of engine.initialize(): the lock is
\* taken
InitEnter(t, fresh, seed) ==
    /\ t \in Callers
    /\ pc[t] = "idle"
    /\ left.inits > 0
    /\ lock_free(mgr)
    /\ mgr' = [mgr EXCEPT !.lock = t]
    /\ pc' = [pc EXCEPT ![t] = "init_run"]
    /\ frame' = [frame EXCEPT ![t] = [EmptyFrame EXCEPT !.fresh = fresh, !.seed = seed]]
    /\ left' = [left EXCEPT !.inits = @ - 1]
    /\ UNCHANGED <<engine, db, result>>
    /\ MgrUnchanged

\* self.engine = SimulationEngine(self.db, seed); self.engine.initialize(fresh)
\* returns or raises, having connected the store in this thread; the scars are
\* cleared on a fresh start
InitRun(t) ==
    /\ pc[t] = "init_run"
    /\ \E st \in {initialize(SimulationEngine_new(frame[t].seed), db, frame[t].fresh)} :
        /\ engine' = st.engine
        /\ db' = st.db
        /\ mgr' = [mgr EXCEPT !.has_engine = TRUE,
                              !.lock = 0,
                              !.conn = t,
                              !.scars = IF ~st.raised /\ frame[t].fresh THEN {} ELSE @]
        /\ frame' = [frame EXCEPT ![t] =
                        [EmptyFrame EXCEPT !.outcome = IF st.raised THEN "raised"
                                                      ELSE "returned"]]
    /\ pc' = [pc EXCEPT ![t] = "idle"]
    /\ result' = NoResult
    /\ UNCHANGED left
    /\ MgrUnchanged

\* start(), run without another thread in between: nothing when running, else
\* _running is set and a tick thread created, kept in _tick_thread and started
Start(l) ==
    /\ ~mgr.running
    /\ l \in AutoLoops
    /\ pc[l] = "off"
    /\ mgr' = [mgr EXCEPT !.running = TRUE, !.tick_thread = l]
    /\ pc' = [pc EXCEPT ![l] = "loop_check"]
    /\ UNCHANGED <<engine, db, result, left, frame>>
    /\ MgrUnchanged

\* stop(), run without another thread in between: _running is cleared; the
\* join gives up after 2 seconds, so the tick thread may still be inside step()
Stop ==
    /\ mgr.running
    /\ mgr' = [mgr EXCEPT !.running = FALSE, !.tick_thread = 0]
    /\ UNCHANGED <<engine, db, result, left, pc, frame>>
    /\ MgrUnchanged

\* start() in thread t up to `self._running = True`: the test of _running has
\* found it cleared (when it is set start() returns at once and changes nothing)
StartCheck(t) ==
    /\ t \in Callers
    /\ pc[t] = "idle"
    /\ ~mgr.running
    /\ pc' = [pc EXCEPT ![t] = "start_set"]
    /\ UNCHANGED <<engine, db, result, left, mgr, frame>>
    /\ MgrUnchanged

\* the rest of start(): _running is set, a new tick thread l is created, kept
\* in _tick_thread and started
StartThread(t, l) ==
    /\ pc[t] = "start_set"
    /\ l \in AutoLoops
    /\ pc[l] = "off"
    /\ mgr' = [mgr EXCEPT !.running = TRUE, !.tick_thread = l]
    /\ pc' = [pc EXCEPT ![t] = "idle", ![l] = "loop_check"]
    /\ UNCHANGED <<engine, db, result, left, frame>>
    /\ MgrUnchanged

\* stop() in thread t up to the join: _running is cleared; without a
\* _tick_thread stop() returns
StopClear(t) ==
    /\ t \in Callers
    /\ pc[t] = "idle"
    /\ mgr.running \/ mgr.tick_thread # 0
    /\ mgr' = [mgr EXCEPT !.running = FALSE]
    /\ pc' = [pc EXCEPT ![t] = IF mgr.tick_thread # 0 THEN "stop_join" ELSE "idle"]
    /\ UNCHANGED <<engine, db, result, left, frame>>
    /\ MgrUnchanged

\* join(timeout=2.0) on tick thread l returns (at once when another stop() has
\* set _tick_thread to None, with AttributeError): the thread has ended, or two
\* seconds have passed, which takes a thread that is asleep between two steps
\* (for 1/speed seconds), waiting for a lock another thread holds, or inside
\* engine.tick() or a callback
join_returns(l) ==
    IF l = 0 THEN TRUE
    ELSE IF pc[l] = "step_call" THEN ~lock_free(mgr)
    ELSE pc[l] \in {"off", "loop_check", "step_tick", "step_broadcast"}

\* the rest of stop(): the join returns, _tick_thread is set to None and stop()
\* returns
StopJoin(t) ==
    /\ pc[t] = "stop_join"
    /\ join_returns(mgr.tick_thread)
    /\ mgr' = [mgr EXCEPT !.tick_thread = 0]
    /\ pc' = [pc EXCEPT ![t] = "idle"]
    /\ UNCHANGED <<engine, db, result, left, frame>>
    /\ MgrUnchanged

\* the test of `while self._running` in _tick_loop finds it set: the tick
\* thread calls step()
LoopCheck(l) ==
    /\ l \in AutoLoops
    /\ pc[l] = "loop_check"
    /\ mgr.running
    /\ pc' = [pc EXCEPT ![l] = "step_call"]
    /\ UNCHANGED <<engine, db, result, left, mgr, frame>>
    /\ MgrUnchanged

\* _tick_loop finds _running cleared and the thread ends
LoopExit(l) ==
    /\ l \in AutoLoops
    /\ pc[l] = "loop_check"
    /\ ~mgr.running
    /\ pc' = [pc EXCEPT ![l] = "off"]
    /\ UNCHANGED <<engine, db, result, left, mgr, frame>>
    /\ MgrUnchanged

\* subscribe(callback)
Subscribe(kind) ==
    /\ Len(mgr.subscribers) < MaxSubscribers
    /\ mgr' = [mgr EXCEPT !.subscribers = Append(@, kind)]
    /\ UNCHANGED <<engine, db, result, left, pc, frame>>
    /\ MgrUnchanged

\* unsubscribe(callback) of the callback at position i
Unsubscribe(i) ==
    /\ i \in 1..Len(mgr.subscribers)
    /\ mgr' = [mgr EXCEPT !.subscribers =
                   [j \in 1..(Len(@) - 1) |-> IF j < i THEN @[j] ELSE @[j + 1]]]
    /\ UNCHANGED <<engine, db, result, left, pc, frame>>
    /\ MgrUnchanged

ManagerNext ==
    \/ \E t \in Threads : StepEnter(t)
    \/ \E t \in Threads : StepTick(t)
    \/ \E t \in Threads : StepDeliver(t)
    \/ \E t \in Threads : StepReturn(t)
    \/ \E t \in Callers, fresh \in BOOLEAN, seed \in MgrSeeds : InitEnter(t, fresh, seed)
    \/ \E t \in Callers : InitRun(t)
    \/ \E l \in Loops : Start(l)
    \/ Stop
    \/ \E l \in Loops : LoopCheck(l)
    \/ \E l \in Loops : LoopExit(l)
    \/ \E kind \in CallbackKinds : Subscribe(kind)
    \/ \E i \in 1..MaxSubscribers : Unsubscribe(i)

SpecManager == ManagerInit /\ [][ManagerNext]_vars

(***************************************************************************)
(* The auto-run mode: two threads call start(), stop(), step() and         *)
(* initialize() in any interleaving, start() and stop() being split at the *)
(* points where another thread can run; start() creates a new tick thread  *)
(* each time it gets past its test.  No callback is subscribed.            *)
(***************************************************************************)
AutoRunInit ==
    /\ MgrStart
    /\ engine = SimulationEngine_new(0)
    /\ db = EmptyDb
    /\ result = NoResult
    /\ ascRun = ZeroRuns
    /\ weakRun = ZeroRuns
    /\ allQual = AllTrue
    /\ run = 0
    /\ left = [inits |-> AutoMaxInits, forces |-> 0, days |-> AutoMaxDay, faults |-> 0]
    /\ ticks = -1
    /\ orig = None
    /\ streakWas = None
    /\ DetIdle /\ ClockIdle /\ AgeIdle /\ ApplyIdle

AutoRunNext ==
    \/ \E t \in Threads : StepEnter(t)
    \/ \E t \in Threads : StepTick(t)
    \/ \E t \in Threads : StepReturn(t)
    \/ \E t \in Callers, seed \in MgrSeeds : InitEnter(t, TRUE, seed)
    \/ \E t \in Callers : InitRun(t)
    \/ \E t \in Callers : StartCheck(t)
    \/ \E t \in Callers, l \in AutoLoops : StartThread(t, l)
    \/ \E t \in Callers : StopClear(t)
    \/ \E t \in Callers : StopJoin(t)
    \/ \E l \in AutoLoops : LoopCheck(l)
    \/ \E l \in AutoLoops : LoopExit(l)

SpecAutoRun == AutoRunInit /\ [][AutoRunNext]_vars

(***************************************************************************)
(* Callbacks that read the manager: threads call step() and initialize()   *)
(* while callbacks are subscribed that return at once or that read         *)
(* current_day (or get_current_state()) before they return.  Both reads    *)
(* enter `with self._lock`, a threading.Lock, in the thread that calls the *)
(* callback.                                                               *)
(***************************************************************************)
ReadingKinds == {"returns", "reads"}

ReentrantNext ==
    \/ \E t \in Callers : StepEnter(t)
    \/ \E t \in Callers : StepTick(t)
    \/ \E t \in Callers : StepDeliver(t)
    \/ \E t \in Callers : StepReturn(t)
    \/ \E t \in Callers, fresh \in BOOLEAN, seed \in MgrSeeds : InitEnter(t, fresh, seed)
    \/ \E t \in Callers : InitRun(t)
    \/ \E kind \in ReadingKinds : Subscribe(kind)
    \/ \E i \in 1..MaxSubscribers : Unsubscribe(i)

SpecReentrant == ManagerInit /\ [][ReentrantNext]_vars

(***************************************************************************)
(* Properties                                                              *)
(***************************************************************************)

\* C1 (pantheon exclusivity): in every state reached by initialize (fresh or
\* restore) and tick, no two gods with alive = TRUE share a domain.
C1_PantheonExclusivity ==
    \A i, j \in 1..Len(db.gods) :
        (db.gods[i].alive /\ db.gods[j].alive /\ db.gods[i].domain = db.gods[j].domain)
            => i = j

\* a god born before the latest initialize is alive, and the tick just run
\* found its domain qualifying for a birth again
C1_Witness ==
    /\ result.status = "ok"
    /\ left.inits = 0
    /\ \E i \in 1..Len(db.gods) :
        /\ db.gods[i].alive
        /\ db.gods[i].birth_day <= result.day - run
        /\ Qualifies(aggregate_domain(engine.citizens, db.gods[i].domain))

\* C2 (birth threshold): counting the consecutive qualifying ticks of a domain
\* from a tick at which it had no living god and a streak of 0, the tick that
\* makes the count 5 reports exactly one god of the domain in born_gods, which
\* is stored alive with birth_day that tick's day, and the ticks that make the
\* count 1 to 4 report none.
C2_BirthThreshold ==
    result.status = "ok" =>
        \A d \in Domain :
            /\ ascRun[d] <= CONSECUTIVE_DAYS_BIRTH
            /\ ascRun[d] \in 1..(CONSECUTIVE_DAYS_BIRTH - 1)
                   => d \notin DomainsOf(result.born_gods)
            /\ ascRun[d] = CONSECUTIVE_DAYS_BIRTH =>
                 /\ Cardinality({k \in 1..Len(result.born_gods) :
                                     result.born_gods[k].domain = d}) = 1
                 /\ \A k \in 1..Len(result.born_gods) :
                        result.born_gods[k].domain = d =>
                            /\ result.born_gods[k].id \in 1..Len(db.gods)
                            /\ db.gods[result.born_gods[k].id].domain = d
                            /\ db.gods[result.born_gods[k].id].alive
                            /\ db.gods[result.born_gods[k].id].birth_day = result.day
                            /\ result.day = engine.current_day

\* the fifth qualifying tick in a row has just run
C2_Witness ==
    /\ result.status = "ok"
    /\ \E d \in Domain : ascRun[d] = CONSECUTIVE_DAYS_BIRTH

\* C3 (fade threshold): counting the consecutive ticks at which a domain's
\* living god saw a mean belief below 0.3, a god is reported in faded_gods by
\* the tick that makes the count 7 and by no other tick; that tick stores the
\* god with alive = FALSE and death_day the tick's day, and until then the god
\* stays alive.
C3_FadeThreshold ==
    result.status = "ok" =>
        \A d \in Domain :
            /\ weakRun[d] <= CONSECUTIVE_DAYS_FADE
            /\ d \in DomainsOf(result.faded_gods) <=> weakRun[d] = CONSECUTIVE_DAYS_FADE
            /\ weakRun[d] \in 1..(CONSECUTIVE_DAYS_FADE - 1) => d \in LivingIn(db.gods)
            /\ \A k \in 1..Len(result.faded_gods) :
                   /\ ~result.faded_gods[k].alive
                   /\ result.faded_gods[k].id \in 1..Len(db.gods)
                   /\ ~db.gods[result.faded_gods[k].id].alive
                   /\ db.gods[result.faded_gods[k].id].death_day = result.day
                   /\ result.day = engine.current_day

\* the seventh weak tick in a row of a living god has just run
C3_Witness ==
    /\ result.status = "ok"
    /\ \E d \in Domain : weakRun[d] = CONSECUTIVE_DAYS_FADE

\* gods ever born in a domain since genesis (rows of the gods table)
NumBorn(d) == Cardinality({i \in 1..Len(db.gods) : db.gods[i].domain = d})

\* C4 (no repeated births): while a domain has qualified at every tick since
\* genesis, at most one god of it has been born, and exactly one once five
\* ticks have run.
C4_NoRepeatedBirths ==
    \A d \in Domain :
        (allQual[d] /\ run >= 1) =>
            /\ NumBorn(d) <= 1
            /\ run >= CONSECUTIVE_DAYS_BIRTH => NumBorn(d) = 1

\* a domain qualified at every one of the MaxDay ticks run since genesis
C4_Witness ==
    /\ engine.current_day = MaxDay
    /\ result.status = "ok"
    /\ \E d \in Domain : allQual[d] /\ NumBorn(d) = 1

\* the successor of each era as the specification lists the cycle
ListedSuccessor ==
    [a \in Ages |->
        CASE a = "Emergence" -> "Order"
          [] a = "Order"     -> "Strain"
          [] a = "Strain"    -> "Collapse"
          [] a = "Collapse"  -> "Silence"
          [] a = "Silence"   -> "Rebirth"
          [] a = "Rebirth"   -> "Emergence"]

\* the walk with its starting era in front
Walk == <<era0>> \o eraPath

\* C5 (era ordering): along any walk of Age.next, each step follows the cycle
\* Emergence, Order, Strain, Collapse, Silence, Rebirth, Emergence; six steps
\* return to the starting era, no fewer do, and the six eras on the way are
\* pairwise distinct.
C5_EraOrdering ==
    /\ \A i \in 1..Len(eraPath) : Walk[i + 1] = ListedSuccessor[Walk[i]]
    /\ \A i \in 1..Len(Walk) :
        \A k \in 1..6 :
            i + k <= Len(Walk) => (Walk[i + k] = Walk[i] <=> k = 6)

\* a walk that went round the cycle at least once
C5_Witness == Len(eraPath) >= 6 /\ eraPath[6] = era0

\* C6 (era counter bound): on a clock created at genesis or restored from the
\* persisted pair, 0 <= daysInEra < eraDuration after every advance (and at
\* creation and restore).
C6_EraCounterBound ==
    /\ 0 <= clock.day_counter
    /\ clock.day_counter < clock.age_duration

\* a restored clock advanced to the last day of its era
C6_Witness ==
    /\ origin = "restore"
    /\ since > 0
    /\ clock.day_counter + 1 = clock.age_duration

\* C7 (era duration range): after genesis, after any transition and after a
\* restore from a persisted (era, daysInEra) pair, eraDuration lies within the
\* current era's [min_days, max_days].
C7_EraDurationRange ==
    /\ clock.age_duration >= AGE_TRAITS[clock.current_age].min_days
    /\ clock.age_duration <= AGE_TRAITS[clock.current_age].max_days

\* a clock restored late in an era, so that the restored duration is the
\* persisted counter plus one
C7_Witness ==
    /\ origin = "restore"
    /\ clock.current_age # "Emergence"
    /\ clock.age_duration = clock.day_counter + 1
    /\ clock.age_duration > AGE_TRAITS[clock.current_age].min_days

\* C8 (era cycle liveness): under repeated advances every era is entered again
\* and again, and a transition occurs no later than 60 advances after the
\* previous one (or after genesis).
C8_EraCycleLiveness ==
    /\ \A a \in Ages : []<>(clock.current_age = a)
    /\ [](since < 60)

\* the last era of the cycle has been left: Emergence entered a second time
C8_Witness ==
    /\ origin = "transition"
    /\ clock.current_age = "Emergence"
    /\ since = 0

\* C9 (belief clamp): whatever events, eras, biases and jitter are applied,
\* the citizen's belief in every domain and its fear and gratitude stay
\* within [0, 1].
C9_BeliefClamp ==
    citizen # None =>
        /\ \A d \in Domain : The(citizen).belief_vector[d] \in 0..Unit
        /\ The(citizen).fear \in 0..Unit
        /\ The(citizen).gratitude \in 0..Unit

\* events pushed a belief and an emotion up against the bound
C9_Witness ==
    /\ citizen # None
    /\ nApplied = MaxApplied
    /\ The(citizen).belief_vector[DOMAINS[1]] = Unit
    /\ The(citizen).fear = Unit

C11_DayCounter ==
    (ticks >= 0 /\ Initialized(engine)) =>
        /\ engine.current_day = ticks
        /\ result.status = "ok" => result.day = ticks

\* the kernel has ticked to the last day since its genesis
C11_Witness ==
    /\ ticks = MaxDay
    /\ Initialized(engine)
    /\ result.status = "ok"
    /\ result.day = MaxDay

\* the citizens of the kernel with the given faction_id (0: unaffiliated)
CitizensOf(e, fid) == {i \in 1..Len(e.citizens) : e.citizens[i].row.faction_id = fid}

\* C12 (genesis population): once initialize(fresh=True) has been called on a new
\* kernel, whatever its seed, the kernel is initialized and holds exactly 3
\* factions of exactly 8 member citizens each and 5 unaffiliated citizens, 29
\* citizens in all.
C12_GenesisPopulation ==
    left.inits = 0 =>
        /\ Initialized(engine)
        /\ Len(engine.factions) = INITIAL_FACTIONS
        /\ \A p \in 1..Len(engine.factions) :
            /\ Len(engine.factions[p].members) = INITIAL_CITIZENS_PER_FACTION
            /\ Cardinality(CitizensOf(engine, engine.factions[p].row.id))
                   = INITIAL_CITIZENS_PER_FACTION
        /\ Cardinality(CitizensOf(engine, 0)) = UNAFFILIATED_CITIZENS
        /\ Len(engine.citizens) = INITIAL_FACTIONS * INITIAL_CITIZENS_PER_FACTION
                                     + UNAFFILIATED_CITIZENS

\* C13 (restore round trip): a new kernel initialized with fresh=False over the
\* store a kernel left after N completed ticks stands where that kernel stood:
\* same current day, same era, same day-in-era.
C13_RestoreRoundTrip ==
    (~IsNone(orig) /\ Initialized(engine)) => Standing(engine) = The(orig)

\* a kernel restored in the second era, some days into it
C13_Witness ==
    /\ ~IsNone(orig)
    /\ Initialized(engine)
    /\ Standing(engine) = The(orig)
    /\ The(orig).age = "Order"
    /\ The(orig).counter > 0
    /\ The(orig).day > The(orig).counter

\* C14 (NotInitialized): a kernel on which initialize has not run is as it was
\* constructed, whatever ticks were attempted on it (its day counter is 0), and
\* no tick on it has returned a result.
C14_NotInitialized ==
    IsNone(engine.age_manager) =>
        /\ engine = SimulationEngine_new(engine.seed)
        /\ result.status # "ok"

\* C15 (observer isolation in the kernel): a tick on an initialized kernel whose
\* narrator raises still returns its TickResult, which carries the day counted.
C15_ObserverIsolation ==
    (engine.narrator = "raises" /\ Initialized(engine) /\ engine.current_day > 0) =>
        /\ result.status = "ok"
        /\ result.day = engine.current_day

\* a broadcast that invoked every callback of the copied subscriber list, in
\* order, each with the tick's result
Delivered(f) ==
    /\ f.result.status = "ok"
    /\ f.got = [i \in 1..Len(f.copy) |-> [callback |-> i, day |-> f.result.day]]

\* C16 (subscriber isolation): a thread leaves the broadcast of a tick only
\* after every callback subscribed when the broadcast began was invoked with
\* the tick's result, whichever of them raised, and step() then returns.
C16_SubscriberIsolation ==
    [][\A t \in Threads :
          (pc[t] = "step_broadcast" /\ pc'[t] # "step_broadcast") =>
              /\ Delivered(frame[t])
              /\ frame'[t].outcome = "returned"]_vars

\* a broadcast at its end whose first callback raised and whose second one was
\* invoked all the same
C16_Witness ==
    \E t \in Threads :
        /\ pc[t] = "step_broadcast"
        /\ frame[t].copy = <<"raises", "returns">>
        /\ frame[t].idx > Len(frame[t].copy)
        /\ Delivered(frame[t])

\* the threads executing engine.tick() or engine.initialize()
Executing == {t \in Threads : pc[t] \in {"step_tick", "init_run"}}

\* C19 (serialized ticks): whatever the interleaving of step() calls from
\* several threads, the tick thread and initialize(), at most one thread is
\* executing engine.tick() or engine.initialize() on the manager's engine.
C19_SerializedTicks == Cardinality(Executing) <= 1

\* the tick thread is executing engine.tick() for the second day, with the lock
\* held, after both callers have completed calls of their own
C19_Witness ==
    /\ \E l \in Loops : pc[l] = "step_tick" /\ mgr.lock = l
    /\ \A t \in Callers : pc[t] = "idle" /\ frame[t].outcome = "returned"
    /\ engine.current_day = 1
    /\ left.inits = 0

\* C17 (tick atomicity with respect to persistence): a tick interrupted by a
\* failing save call leaves the store as it was before the tick (the store
\* never holds a part of a day that the persisted world state does not count).
C17_TickAtomicity ==
    [][left'.faults < left.faults => db' = db]_vars

\* C18 (StorageFailure policy): when a save call raises during tick(), the
\* caller gets the error and the kernel keeps what the tick had changed in
\* memory: the day is counted, the era clock has advanced, the citizens hold
\* the beliefs and emotions the tick gave them.
C18_NoRollback ==
    [][left'.faults < left.faults =>
          /\ result'.status = "raised"
          /\ engine'.current_day = engine.current_day + 1
          /\ engine'.age_manager = tick(engine, db).engine.age_manager
          /\ engine'.citizens = tick(engine, db).engine.citizens]_vars

\* after an interrupted tick the kernel is a day ahead of the persisted world
\* state, and its citizens hold beliefs the store does not
C18_Witness ==
    /\ result.status = "raised"
    /\ Initialized(engine)
    /\ left.faults < FailMaxFaults
    /\ engine.current_day = The(db.world_state).current_day + 1
    /\ \E i \in 1..Len(engine.citizens) : engine.citizens[i].row # db.citizens[i]
    /\ \E i \in 1..Len(engine.citizens) : engine.citizens[i].row = db.citizens[i]

\* the domains with more than one living god in a gods table
TwiceLiving(gods) ==
    {gods[i].domain : i \in {j \in alive_god_ids(gods) :
        \E k \in alive_god_ids(gods) : k # j /\ gods[k].domain = gods[j].domain}}

\* C20: when the store holds two living gods for one domain, a restore from
\* it fails: no kernel is ever initialized (and so none completes a tick)
\* over such a store.
C20_InvariantViolationOnLoad == TwiceLiving(db.gods) # {} => ~Initialized(engine)

\* The state of a domain's pantheon process, read off the kernel's counter of
\* qualifying days (GodSystem._proto_god_days) and the weak streaks of the
\* domain's living gods in the store; "Other" when it is none of the four.
PantheonState(e, gods, dom) ==
    LET living == {i \in alive_god_ids(gods) : gods[i].domain = dom}
        proto == The(e.god_system)[dom]
    IN  IF living = {}
        THEN IF proto = 0 THEN "Dormant"
             ELSE IF proto \in 1..(CONSECUTIVE_DAYS_BIRTH - 1) THEN "Ascending"
             ELSE "Other"
        ELSE IF \A i \in living : gods[i].consecutive_weak_days = 0 THEN "Manifest"
             ELSE IF \A i \in living :
                        gods[i].consecutive_weak_days \in 1..(CONSECUTIVE_DAYS_FADE - 1)
                  THEN "Waning"
             ELSE "Other"

PantheonEdges ==
    {<<"Dormant", "Dormant">>, <<"Dormant", "Ascending">>,
     <<"Ascending", "Ascending">>, <<"Ascending", "Dormant">>, <<"Ascending", "Manifest">>,
     <<"Manifest", "Manifest">>, <<"Manifest", "Waning">>,
     <<"Waning", "Waning">>, <<"Waning", "Manifest">>, <<"Waning", "Dormant">>}

\* C21 (pantheon state machine): every completed tick takes each domain from
\* one of Dormant, Ascending, Manifest, Waning to one of them along an edge of
\* Dormant->{Dormant, Ascending}, Ascending->{Ascending, Dormant, Manifest},
\* Manifest->{Manifest, Waning}, Waning->{Waning, Manifest, Dormant}.
C21_PantheonStateMachine ==
    [][(ticks >= 0 /\ ticks' = ticks + 1) =>
          \A dom \in Domain :
              <<PantheonState(engine, db.gods, dom),
                PantheonState(engine', db'.gods, dom)>> \in PantheonEdges]_vars

\* a tick has just taken a god's domain from Waning back to Dormant, in a run
\* that went through Ascending and Manifest before
C21_Witness ==
    /\ result.status = "ok"
    /\ ticks > CONSECUTIVE_DAYS_BIRTH
    /\ \E dom \in DomainsOf(result.faded_gods) :
           PantheonState(engine, db.gods, dom) = "Dormant"

\* C22 (streak reset): a tick on which a domain without a living god has mean
\* belief < 0.6 or coherence < 0.5 leaves the domain's counter of qualifying
\* days at 0 and gives it no god (stated the other way round: a counter that
\* is not 0 after the tick, or a god born, means the domain qualified); and a
\* tick that gives a domain a god is the fifth qualifying tick in a row.
C22_StreakReset ==
    [][(ticks >= 0 /\ ticks' = ticks + 1) =>
          \A dom \in Domain :
              /\ (dom \notin LivingIn(db.gods)
                    /\ (The(engine'.god_system)[dom] # 0
                          \/ dom \in DomainsOf(result'.born_gods)))
                   => Qualifies(aggregate_domain(engine'.citizens, dom))
              /\ dom \in DomainsOf(result'.born_gods)
                   => ascRun'[dom] = CONSECUTIVE_DAYS_BIRTH]_vars

\* the last tick found a domain one qualifying day short of a birth and left
\* it at 0 with no god
C22_Witness ==
    /\ result.status = "ok"
    /\ ~IsNone(streakWas)
    /\ \E dom \in Domain :
        /\ The(streakWas)[dom] = CONSECUTIVE_DAYS_BIRTH - 1
        /\ The(engine.god_system)[dom] = 0
        /\ NumBorn(dom) = 0

\* C23 (manifest-domain update): a tick takes every god it finds alive, with
\* this tick's aggregation of the god's domain, to consecutive_weak_days + 1
\* and consecutive_strong_days 0 when the mean belief is below 0.3, and to
\* consecutive_weak_days 0 and consecutive_strong_days + 1 otherwise; in both
\* cases, and on the tick the god dies, the stored belief_strength and
\* coherence are the aggregation's mean belief and coherence.
C23_ManifestUpdate ==
    [][(ticks >= 0 /\ ticks' = ticks + 1) =>
          \A i \in alive_god_ids(db.gods) :
              LET g == db.gods[i]
                  h == db'.gods[i]
                  agg == aggregate_domain(engine'.citizens, g.domain)
              IN  /\ Weak(agg) =>
                        /\ h.consecutive_weak_days = g.consecutive_weak_days + 1
                        /\ h.consecutive_strong_days = 0
                  /\ ~Weak(agg) =>
                        /\ h.consecutive_weak_days = 0
                        /\ h.consecutive_strong_days = g.consecutive_strong_days + 1
                  /\ h.belief_strength = agg.average_belief
                  /\ h.coherence = agg.coherence]_vars

\* the last tick saw a god die on its seventh weak day, storing for it a
\* strength below the fade threshold (it was born with one of 0.6 or more)
C23_Witness ==
    /\ result.status = "ok"
    /\ \E k \in 1..Len(result.faded_gods) :
        LET i == result.faded_gods[k].id IN
        /\ ~db.gods[i].alive
        /\ db.gods[i].death_day = result.day
        /\ db.gods[i].belief_strength < 300
        /\ db.gods[i].consecutive_strong_days = 0
        /\ db.gods[i].consecutive_weak_days = CONSECUTIVE_DAYS_FADE

\* C24 (advance result): on any clock reached by advances and restores, and
\* for any draw, advance() returns an era exactly when the incremented counter
\* reaches eraDuration; then the era is the successor of the previous one, the
\* counter is 0 and the era returned is the new current era; otherwise it
\* returns nothing, era and duration are unchanged and the counter is one more.
C24_AdvanceResult ==
    \A x \in ClockDraws :
        LET r == AgeManager_tick(clock, x) IN
        /\ r.transition # "None" <=> clock.day_counter + 1 = clock.age_duration
        /\ r.transition # "None" =>
              /\ r.am.current_age = ListedSuccessor[clock.current_age]
              /\ r.am.day_counter = 0
              /\ r.transition = r.am.current_age
        /\ r.transition = "None" =>
              /\ r.am.current_age = clock.current_age
              /\ r.am.age_duration = clock.age_duration
              /\ r.am.day_counter = clock.day_counter + 1

\* advance() has just returned Strain: the clock left Order on the day the
\* counter reached the duration
C24_Witness ==
    /\ origin = "transition"
    /\ since = 0
    /\ clock.current_age = "Strain"
    /\ clock.day_counter = 0
    /\ clockSaved = <<"Strain", 0>>

\* C25 (restore duration policy): a restore from the persisted (era, daysInEra)
\* pair leaves a clock with that era, that counter, and eraDuration the larger
\* of daysInEra + 1 and the era's minimum duration.
C25_RestoreDuration ==
    [][(clockSaved' = clockSaved /\ origin' = "restore") =>
          /\ clock'.current_age = clockSaved[1]
          /\ clock'.day_counter = clockSaved[2]
          /\ clock'.age_duration =
                IF clockSaved[2] + 1 >= AGE_TRAITS[clockSaved[1]].min_days
                THEN clockSaved[2] + 1
                ELSE AGE_TRAITS[clockSaved[1]].min_days]_vars

\* a clock restored early in Order, some days into the era: its duration is
\* Order's minimum
C25_Witness ==
    /\ origin = "restore"
    /\ clock.current_age = "Order"
    /\ clock.day_counter >= 1
    /\ clockSaved = <<"Order", clock.day_counter>>
    /\ clock.age_duration = AGE_TRAITS["Order"].min_days

\* the citizens as _apply_event leaves them when the traits of era `age` are
\* used, from stream state s
AppliedUnder(e, event, age, s) ==
    LET draws == rng_draws(s, 3 * Len(e.citizens)) IN
    [i \in 1..Len(e.citizens) |->
        [row |-> apply_event_to(e.citizens[i].row, event, AGE_TRAITS[age],
                    faction_bias_of(e.factions, e.citizens[i].row.faction_id,
                                    event.primary_domain),
                    draws[3 * i - 2], draws[3 * i - 1], draws[3 * i])]]

\* C26 (tick pipeline order): with `era` the clock's era after the tick, the
\* tick's event is the one generated with era's event rate and modifiers from
\* the stream as the clock's advance left it, the citizens are changed with
\* era's multipliers, every god alive after the tick holds the strength and
\* coherence aggregated over the citizens as the event left them,
\* TickResult.age is era, and a reported transition is to era.
C26_PipelineOrder ==
    [][(ticks >= 0 /\ ticks' = ticks + 1) =>
          LET era == The(engine'.age_manager).current_age
              advanced == tick_age([engine EXCEPT !.current_day = @ + 1])
              gen == generate_event(era, AGE_TRAITS[era].event_rate, advanced.engine.rng)
          IN  /\ result'.age = era
              /\ result'.age_transition # "None" => result'.age_transition = era
              /\ result'.age_transition = advanced.transition
              /\ result'.event = gen.event
              /\ engine'.citizens =
                    IF IsNone(gen.event) THEN engine.citizens
                    ELSE AppliedUnder(engine, The(gen.event), era, gen.rng)
              /\ \A i \in alive_god_ids(db'.gods) :
                    LET agg == aggregate_domain(engine'.citizens, db'.gods[i].domain) IN
                    /\ db'.gods[i].belief_strength = agg.average_belief
                    /\ db'.gods[i].coherence = agg.coherence]_vars

\* the tick on which the kernel entered Order had an event, and a god was
\* alive to be updated after it
C26_Witness ==
    /\ result.status = "ok"
    /\ result.age_transition = "Order"
    /\ ~IsNone(result.event)
    /\ The(engine.age_manager).current_age = "Order"
    /\ The(engine.age_manager).day_counter = 0
    /\ The(result.event).belief_impact # 0
    /\ alive_god_ids(db.gods) # {}

\* the value an event's belief update leaves in the primary domain of a row
\* when the bias used is `bias` and the jitter draw is x
PrimaryBeliefUnder(row, event, age, bias, x) ==
    LET delta == scaled(event.belief_impact, AGE_TRAITS[age].belief_growth, x)
        moved == row.belief_vector[event.primary_domain] + (delta * bias) \div Unit
    IN  IF moved < 0 THEN 0 ELSE IF moved > Unit THEN Unit ELSE moved

\* C27 (unaffiliated default bias): a tick with an event leaves every citizen
\* that has no faction with the primary-domain belief it had, moved by the
\* event's belief delta times 0.5 and clamped to [0, 1].  (An event without a
\* secondary domain is looked at, so that the primary domain is written once.)
C27_UnaffiliatedBias ==
    [][(ticks >= 0 /\ ticks' = ticks + 1 /\ ~IsNone(result'.event)
          /\ The(result'.event).secondary_domain = "None") =>
          LET era == The(engine'.age_manager).current_age
              advanced == tick_age([engine EXCEPT !.current_day = @ + 1])
              gen == generate_event(era, AGE_TRAITS[era].event_rate, advanced.engine.rng)
              draws == rng_draws(gen.rng, 3 * Len(engine.citizens))
          IN  \A i \in 1..Len(engine.citizens) :
                  engine.citizens[i].row.faction_id = 0 =>
                      engine'.citizens[i].row.belief_vector[The(result'.event).primary_domain]
                        = PrimaryBeliefUnder(engine.citizens[i].row, The(result'.event),
                                             era, 500, draws[3 * i - 2])]_vars

\* C28 (myth creation): a tick without an event adds no myth; a tick with an
\* event adds at most one myth per faction, after the myths already stored,
\* and reports exactly the myths it added; each of them has the event's
\* primary domain, the id of a faction of the kernel (no two the same one),
\* the tick's day, and as confidence that faction's doctrine bias toward the
\* event's primary domain.
C28_MythCreation ==
    [][(ticks >= 0 /\ ticks' = ticks + 1) =>
          LET old == Len(db.myths)
              added == Len(db'.myths) - old
          IN  /\ added >= 0
              /\ \A k \in 1..old : db'.myths[k] = db.myths[k]
              /\ result'.new_myths = [k \in 1..added |-> db'.myths[old + k]]
              /\ IsNone(result'.event) => added = 0
              /\ added <= Len(engine.factions)
              /\ \A k \in 1..added :
                    LET m == db'.myths[old + k] IN
                    /\ m.domain = The(result'.event).primary_domain
                    /\ m.day_created = result'.day
                    /\ result'.day = engine.current_day + 1
                    /\ \E p \in 1..Len(engine.factions) :
                          /\ engine.factions[p].row.id = m.faction_id
                          /\ m.confidence =
                               engine.factions[p].row.doctrine_bias[
                                   The(result'.event).primary_domain]
                    /\ \A j \in 1..added :
                          db'.myths[old + j].faction_id = m.faction_id => j = k]_vars

\* the last tick's event was put into myths by two factions, one of them
\* holding it with little confidence
C28_Witness ==
    /\ result.status = "ok"
    /\ ~IsNone(result.event)
    /\ Len(result.new_myths) >= 2
    /\ \E k \in 1..Len(result.new_myths) : result.new_myths[k].confidence < 500
    /\ ticks >= 2

\* C29 (eventless tick frame): a tick that generates no event leaves every
\* citizen's belief vector, fear and gratitude as they were, in the kernel and
\* in the rows it saves, reports no new myth and adds none to the store.
C29_EventlessFrame ==
    [][(ticks >= 0 /\ ticks' = ticks + 1 /\ IsNone(result'.event)) =>
          /\ engine'.citizens = engine.citizens
          /\ \A i \in 1..Len(engine.citizens) :
                 db'.citizens[engine.citizens[i].row.id] = engine.citizens[i].row
          /\ result'.new_myths = <<>>
          /\ db'.myths = db.myths]_vars

\* the last tick had no event; it counted the day and advanced a domain's
\* streak, and the rows it saved are the kernel's citizens
C29_Witness ==
    /\ result.status = "ok"
    /\ IsNone(result.event)
    /\ result.new_myths = <<>>
    /\ ticks >= 2
    /\ ~IsNone(streakWas)
    /\ \E dom \in Domain : The(engine.god_system)[dom] = The(streakWas)[dom] + 1
    /\ \A i \in 1..Len(engine.citizens) :
           db.citizens[engine.citizens[i].row.id] = engine.citizens[i].row

\* what of a citizen row is not belief or emotion
Membership(row) ==
    [id |-> row.id, name |-> row.name, faction_id |-> row.faction_id, alive |-> row.alive]

\* C30 (fixed population during play): from initialize on, no step (tick or
\* forcing of beliefs) changes the kernel's factions (rows with their doctrine
\* bias, and member lists), the stored factions, or which citizens the kernel
\* and the store hold and each one's faction and alive flag.
C30_FixedPopulation ==
    [][(Initialized(engine) /\ Initialized(engine')) =>
          /\ engine'.factions = engine.factions
          /\ db'.factions = db.factions
          /\ [i \in 1..Len(engine'.citizens) |-> Membership(engine'.citizens[i].row)]
               = [i \in 1..Len(engine.citizens) |-> Membership(engine.citizens[i].row)]
          /\ [i \in 1..Len(db'.citizens) |-> Membership(db'.citizens[i])]
               = [i \in 1..Len(db.citizens) |-> Membership(db.citizens[i])]]_vars

\* MaxDay ticks have run, with events that made myths and with a god born;
\* the kernel holds the 3 factions and 29 citizens of genesis
C30_Witness ==
    /\ result.status = "ok"
    /\ engine.current_day = MaxDay
    /\ ticks = MaxDay
    /\ db.myths # <<>>
    /\ db.gods # <<>>
    /\ Len(db.factions) = INITIAL_FACTIONS
    /\ Len(db.citizens)
         = INITIAL_FACTIONS * INITIAL_CITIZENS_PER_FACTION + UNAFFILIATED_CITIZENS

\* the member list of every faction of kernel e is the citizens of e whose
\* faction_id is the faction's id, each once; a citizen without faction is in
\* no member list
DerivedMembership(e) ==
    /\ \A p \in 1..Len(e.factions) :
          LET m == e.factions[p].members IN
          /\ \A i, j \in 1..Len(m) : i # j => m[i] # m[j]
          /\ {m[i] : i \in 1..Len(m)} = CitizensOf(e, e.factions[p].row.id)
    /\ \A i \in CitizensOf(e, 0), p \in 1..Len(e.factions) :
          \A k \in 1..Len(e.factions[p].members) : e.factions[p].members[k] # i

\* a kernel that holds no faction and no citizen, as SimulationEngine(db, seed)
\* constructs it
Unpopulated(e) == e.factions = <<>> /\ e.citizens = <<>>

DeadIn(gods) == {i \in 1..Len(gods) : ~gods[i].alive}

\* C33 (dead gods are final): no tick (and nothing else short of an initialize,
\* which may wipe the store) changes any field of the record of a god whose
\* alive flag is false: its death day, stored strength and coherence and its
\* streak counters stay as they are, and it stays dead.
C33_DeadGodsFinal ==
    [][left'.inits = left.inits =>
          \A i \in DeadIn(db.gods) :
              /\ i \in 1..Len(db'.gods)
              /\ db'.gods[i] = db.gods[i]]_vars

\* a tick has completed on a day after a god's death, and the record still
\* holds the day of death and the seven weak days that led to it
C33_Witness ==
    /\ result.status = "ok"
    /\ \E i \in DeadIn(db.gods) :
          /\ db.gods[i].death_day > 0
          /\ db.gods[i].death_day < result.day
          /\ db.gods[i].consecutive_weak_days = CONSECUTIVE_DAYS_FADE

\* C34 (death-to-birth gap): no tick reports a god born in a domain in which it
\* reports a god faded, and a god of a domain in which a god died on day t is
\* born either before that god or on day t + 5 or later.
C34_DeathToBirthGap ==
    /\ DomainsOf(result.born_gods) \cap DomainsOf(result.faded_gods) = {}
    /\ \A i \in DeadIn(db.gods), j \in 1..Len(db.gods) :
          (j # i /\ db.gods[j].domain = db.gods[i].domain) =>
              \/ db.gods[j].birth_day < db.gods[i].birth_day
              \/ db.gods[j].birth_day >= db.gods[i].death_day + CONSECUTIVE_DAYS_BIRTH

\* a second god of a domain was born on the fifth day after the first one died
C34_Witness ==
    \E i \in DeadIn(db.gods), j \in alive_god_ids(db.gods) :
        /\ db.gods[j].domain = db.gods[i].domain
        /\ db.gods[j].birth_day = db.gods[i].death_day + CONSECUTIVE_DAYS_BIRTH
        /\ result.born_gods = <<db.gods[j]>>

\* C35 (ascending streaks start at 0 on every initialize): none of the first
\* four ticks completed after an initialize, be it a genesis or the restore of
\* a new kernel over the store of a kernel that had a streak in progress,
\* reports a god born; and no god is born before day 5.
C35_StreaksStartAtZero ==
    /\ (result.status = "ok" /\ run \in 1..(CONSECUTIVE_DAYS_BIRTH - 1))
           => result.born_gods = <<>>
    /\ \A i \in 1..Len(db.gods) : db.gods[i].birth_day >= CONSECUTIVE_DAYS_BIRTH

\* the fourth tick after a restore has completed on a domain that qualified at
\* every tick since genesis, two or more of them before the restore, and the
\* domain has no god yet
C35_Witness ==
    /\ result.status = "ok"
    /\ run = CONSECUTIVE_DAYS_BIRTH - 1
    /\ result.day > CONSECUTIVE_DAYS_BIRTH
    /\ \E d \in Domain : allQual[d] /\ NumBorn(d) = 0

\* C36 (restore never lengthens an era): a clock restored from the pair
\* persisted for a clock of duration D is in the same era on the same day of
\* it with a duration of at most D, so that it has no more advances left
\* before its transition than the clock it replaces; restored on day
\* minDuration - 1 of the era or later, it transitions on its next advance,
\* whatever the draw.
C36_RestoreNoLonger ==
    [][(clockSaved' = clockSaved /\ origin' = "restore") =>
          /\ clockSaved = <<clock.current_age, clock.day_counter>>
          /\ clock'.age_duration <= clock.age_duration
          /\ clock'.age_duration - clock'.day_counter
                 <= clock.age_duration - clock.day_counter
          /\ clockSaved[2] >= AGE_TRAITS[clockSaved[1]].min_days - 1 =>
                \A x \in ClockDraws :
                    AgeManager_tick(clock', x).transition
                        = ListedSuccessor[clockSaved[1]]]_vars

\* a clock restored on the last day of Order's minimum duration: the restored
\* era ends with the next advance
C36_Witness ==
    /\ origin = "restore"
    /\ clock.current_age = "Order"
    /\ clock.day_counter = AGE_TRAITS["Order"].min_days - 1
    /\ clock.age_duration = AGE_TRAITS["Order"].min_days
    /\ since = clock.day_counter

\* the tick threads inside the body of their loop: they have found _running
\* set and are in step(), waiting for the lock, ticking or broadcasting
Ticking == {l \in AutoLoops : pc[l] \in {"step_call", "step_tick", "step_broadcast"}}

\* C37 (single tick loop): whatever the interleaving of start() and stop()
\* calls on a manager whose kernel is initialized, at most one tick thread is
\* in the body of its loop.
C37_SingleTickLoop == Initialized(engine) => Cardinality(Ticking) <= 1

\* stop() has returned and no start() has been called since: _running is
\* cleared, _tick_thread is None and no thread is inside start() or stop()
Stopped ==
    /\ ~mgr.running
    /\ mgr.tick_thread = 0
    /\ \A t \in Callers : pc[t] \notin {"start_set", "stop_join"}

\* C38 (stop is effective): once stop() has returned, and until start() is
\* called again, no tick thread begins a tick.
C38_StopEffective ==
    [][Stopped => \A l \in AutoLoops : pc[l] = "step_tick" \/ pc'[l] # "step_tick"]_vars

\* C32 (manager step before initialize): a step() entered on a manager without
\* engine raises; it leaves the kernel, the store, the last result and the
\* scars as they were, begins no tick and no broadcast and holds no lock; in a
\* tick thread the exception clears _running and takes the thread back to the
\* test of its loop, which finds _running cleared.
C32_StepBeforeInitialize ==
    [][\A t \in Threads :
          (~mgr.has_engine /\ StepEnter(t)) =>
              /\ frame'[t].outcome = "raised"
              /\ frame'[t].got = <<>>
              /\ engine' = engine /\ db' = db /\ result' = result
              /\ mgr'.scars = mgr.scars
              /\ mgr'.subscribers = mgr.subscribers
              /\ lock_free(mgr')
              /\ pc'[t] \notin {"step_tick", "step_broadcast"}
              /\ t \in AutoLoops =>
                    /\ ~mgr'.running
                    /\ pc'[t] = "loop_check"]_vars

\* the tick thread, started on a manager without engine while a callback was
\* subscribed, has had RuntimeError from step(): _running is cleared, nothing
\* was ticked or delivered
C32_Witness ==
    /\ ~mgr.has_engine
    /\ ~mgr.running
    /\ Len(mgr.subscribers) > 0
    /\ \E l \in Loops :
          /\ pc[l] = "loop_check"
          /\ frame[l].outcome = "raised"
          /\ frame[l].got = <<>>
    /\ engine = SimulationEngine_new(0)
    /\ result = NoResult

\* C39 (broadcast ordering): every tick executed in step() that counts a day
\* goes on, in the same thread and with the lock held, to the broadcast of the
\* result of that day to the callbacks subscribed then; no day is counted that
\* the subscribers are not told of, so that they see consecutive days.
C39_BroadcastOrdering ==
    [][\A t \in Threads :
          (pc[t] = "step_tick" /\ engine'.current_day # engine.current_day) =>
              /\ pc'[t] = "step_broadcast"
              /\ mgr'.lock = t
              /\ frame'[t].result = [status |-> "ok", day |-> engine'.current_day]
              /\ frame'[t].copy = mgr.subscribers]_vars

\* the callback that thread t is about to call in its broadcast, "none" when
\* it is not broadcasting or has called them all
Calling(t) ==
    IF pc[t] = "step_broadcast" /\ frame[t].idx <= Len(frame[t].copy)
    THEN frame[t].copy[frame[t].idx]
    ELSE "none"

\* C40 (no deadlock on re-entrant reads): no thread broadcasting in step()
\* calls a callback that reads the manager while the thread itself holds the
\* manager's lock, which the read would wait for without end.
C40_ReentrantReads ==
    \A t \in Callers : Calling(t) = "reads" => mgr.lock # t

====
